---- MODULE Spec2Model ----
(***************************************************************************)
(* A model of exifsorter's archive package: the deduplication planner      *)
(* (DeDuplicate), its executor (DeduplicateAll), the placement algorithm   *)
(* (Algorithm.Sort) and the FileSystem port they drive.                    *)
(*                                                                         *)
(* Paths are modelled as Go strings: sequences of one-character strings,   *)
(* compared byte by byte, so that sort.Strings, filepath.Rel, filepath.Dir *)
(* and path.Match are computed on the characters as the code computes      *)
(* them.  Every path the model feeds in is already clean (no "//", no "."  *)
(* or ".." element inside, no trailing "/"), so filepath.Clean is the      *)
(* identity on it.                                                         *)
(***************************************************************************)
EXTENDS Integers, Sequences, FiniteSets, TLC

VARIABLES
    pc,             \* which operation ran last: "init", "DeDuplicate", "Sort", ...
    duplicateFiles, \* DeDuplicate: the caller's slice (sorted in place by the call)
    input,          \* DeDuplicate: the slice as the caller passed it
    task,           \* DeDuplicate: the returned DeDupTask
    err,            \* the returned error: a chain of messages, <<>> is nil
    fs,             \* the filesystem: files (path -> inode), dirs, data (inode -> content)
    call,           \* the last call on the filesystem: its arguments, result and log
    calls,          \* how many calls have been made
    firstPath,      \* Sort: source -> the path its first successful Sort returned
    faults,         \* how many I/O faults have struck so far
    creator,        \* the FileSystem in use: "os" or "logging"
    start,          \* the filesystem as it was when the program started
    linkFailed,     \* Sort: the sources whose Sort failed while it created the index links
    dryRun,         \* the sort command: the value of its dry-run flag
    watcher,        \* RecursiveWatcher.watcher: the watched directories and its event queue
    Events,         \* RecursiveWatcher.Events: the events in the channel's buffer
    pending,        \* RecursiveWatcher.run: the event it has processed and not yet sent
    forwarded,      \* the directories whose Create event has been sent on Events
    owed,           \* the files created in a directory after its Create event was sent
    received,       \* the events the consumer has read from Events
    taken,          \* the events run has received from the watcher, in arrival order
    ctx,            \* the context of the watcher: "live" or "cancelled"
    reading,        \* whether the consumer still reads Events and Errors
    workers,        \* concurrent Sort: per worker its source, the calls made and its error
    memoryFile      \* ReadOnlyMemoryFile: data and currentPosition

watchVars ==
    <<watcher, Events, pending, forwarded, owed, received, taken, ctx, reading>>

otherVars == <<workers, memoryFile>>

vars ==
    <<pc, duplicateFiles, input, task, err, fs, call, calls, firstPath, faults,
      creator, start, linkFailed, dryRun, watchVars, otherVars>>

fsVars == <<fs, call, calls, firstPath, faults, creator, start, linkFailed, dryRun, watchVars, otherVars>>

\* No RecursiveWatcher has been created.
NoEvent == [Op |-> "none", Name |-> <<>>]
WatchIdle ==
    /\ watcher = [dirs |-> {}, queue |-> <<>>]
    /\ Events = <<>>
    /\ pending = NoEvent
    /\ forwarded = {}
    /\ owed = {}
    /\ received = <<>>
    /\ taken = <<>>
    /\ ctx = "live"
    /\ reading = TRUE

\* No Sort runs concurrently and no ReadOnlyMemoryFile is open.
NoFile == [data |-> <<>>, currentPosition |-> 0]
OtherIdle ==
    /\ workers = <<>>
    /\ memoryFile = NoFile

(***************************************************************************)
(* Strings                                                                 *)
(***************************************************************************)

\* The characters the model uses, in byte order (ASCII).
Ascii ==
    << "-", ".", "/", "0", "1", "2", "3", "4", "5", "6", "7", "8", "9",
       "A", "G", "J", "P", "_",
       "a", "b", "c", "d", "e", "f", "g", "h", "i", "j", "k", "l", "m",
       "n", "o", "p", "q", "r", "s", "t", "u", "v", "w", "x", "y", "z" >>

Ord ==
    [c \in {Ascii[i] : i \in 1..Len(Ascii)} |->
        CHOOSE i \in 1..Len(Ascii) : Ascii[i] = c]

Digits == {"0", "1", "2", "3", "4", "5", "6", "7", "8", "9"}

\* a < b for Go strings: bytewise, a proper prefix is smaller.
RECURSIVE StrLess(_, _)
StrLess(a, b) ==
    IF b = <<>> THEN FALSE
    ELSE IF a = <<>> THEN TRUE
    ELSE IF Head(a) = Head(b) THEN StrLess(Tail(a), Tail(b))
    ELSE Ord[Head(a)] < Ord[Head(b)]

HasPrefix(s, prefix) ==
    /\ Len(s) >= Len(prefix)
    /\ SubSeq(s, 1, Len(prefix)) = prefix

\* x := value; body(x).  The value is computed once, as a statement of the
\* code computes it once, however often the body reads it.
With(value, body(_)) == CHOOSE v \in {body(x) : x \in {value}} : TRUE

\* The concatenation of the strings of a list.
RECURSIVE Concat(_)
Concat(ss) ==
    IF ss = <<>> THEN <<>> ELSE Head(ss) \o Concat(Tail(ss))

\* strings.Join(elems, "/")
RECURSIVE JoinSlash(_)
JoinSlash(elems) ==
    IF elems = <<>> THEN <<>>
    ELSE IF Len(elems) = 1 THEN elems[1]
    ELSE elems[1] \o <<"/">> \o JoinSlash(Tail(elems))

\* strings.Split(s, "/"): the elements between the separators.
RECURSIVE SplitFrom(_, _, _)
SplitFrom(s, i, cur) ==
    IF i > Len(s) THEN <<cur>>
    ELSE IF s[i] = "/" THEN <<cur>> \o SplitFrom(s, i + 1, <<>>)
    ELSE SplitFrom(s, i + 1, Append(cur, s[i]))

SplitSlash(s) == SplitFrom(s, 1, <<>>)

\* The index of the last "/" of s, 0 when there is none.
RECURSIVE LastSlash(_, _)
LastSlash(s, i) ==
    IF i = 0 THEN 0 ELSE IF s[i] = "/" THEN i ELSE LastSlash(s, i - 1)

Dot == <<".">>
DotDot == <<".", ".">>

\* The words paths are made of.
wArchive == <<"A", "r", "c", "h", "i", "v", "e">>
wAll == <<"a", "l", "l">>
wOrigin == <<"o", "r", "i", "g", "i", "n">>
wFoo == <<"f", "o", "o">>
wBar == <<"b", "a", "r">>
wAJpg == <<"a", ".", "j", "p", "g">>
wBJpg == <<"b", ".", "j", "p", "g">>
w2019 == <<"2", "0", "1", "9">>
w04 == <<"0", "4">>

\* The archive root of every run.
ArchiveRoot == wArchive

(***************************************************************************)
(* path/filepath and path, on clean paths                                  *)
(***************************************************************************)

\* filepath.Dir and path.Dir: all but the last element, "." when there is none.
Dir(p) ==
    LET i == LastSlash(p, Len(p))
    IN  IF i = 0 THEN Dot
        ELSE IF i = 1 THEN <<"/">>
        ELSE SubSeq(p, 1, i - 1)

\* path.Base: the last element.
Base(p) ==
    IF p = <<>> THEN Dot
    ELSE SubSeq(p, LastSlash(p, Len(p)) + 1, Len(p))

\* path.Join of clean elements none of which is ".." : "." and "" elements
\* vanish, the rest is joined by "/".
RECURSIVE DropDots(_)
DropDots(elems) ==
    IF elems = <<>> THEN <<>>
    ELSE IF Head(elems) = <<>> \/ Head(elems) = Dot THEN DropDots(Tail(elems))
    ELSE <<Head(elems)>> \o DropDots(Tail(elems))

Join(elems) ==
    LET kept == DropDots(elems)
    IN  IF kept = <<>>
        THEN (IF \A i \in 1..Len(elems) : elems[i] = <<>> THEN <<>> ELSE Dot)
        ELSE JoinSlash(kept)

\* The length of the longest common prefix of two element lists.
RECURSIVE CommonPrefix(_, _)
CommonPrefix(a, b) ==
    IF a = <<>> \/ b = <<>> \/ Head(a) # Head(b) THEN 0
    ELSE 1 + CommonPrefix(Tail(a), Tail(b))

\* filepath.Rel(basepath, targpath): [rel, err].  The elements base and
\* target share are dropped, every element of base that is left becomes a
\* "..", and the rest of target follows.
RelError == <<"Rel: can't make target relative to base">>

Rel(basepath, targpath) ==
    LET base == IF basepath = Dot THEN <<>> ELSE basepath
        targ == targpath
        baseSlashed == base # <<>> /\ base[1] = "/"
        targSlashed == targ # <<>> /\ targ[1] = "/"
        B == IF base = <<>> THEN <<>> ELSE SplitSlash(base)
        T == IF targ = <<>> THEN <<>> ELSE SplitSlash(targ)
        k == CommonPrefix(B, T)
        up == [i \in 1..(Len(B) - k) |-> DotDot]
        down == SubSeq(T, k + 1, Len(T))
    IN  IF targpath = basepath THEN [rel |-> Dot, err |-> <<>>]
        ELSE IF baseSlashed # targSlashed THEN [rel |-> <<>>, err |-> RelError]
        ELSE IF k < Len(B) /\ B[k + 1] = DotDot THEN [rel |-> <<>>, err |-> RelError]
        ELSE [rel |-> JoinSlash(up \o down), err |-> <<>>]

\* path.Match(pattern, name) for a pattern of literal characters, character
\* classes and "*".  A pattern is a list of tokens: a literal or a class
\* such as [0-9] matches one character of its set, and "*" matches any run
\* of characters other than "/".
Lit(c) == [star |-> FALSE, class |-> {c}]
Class(S) == [star |-> FALSE, class |-> S]
Star == [star |-> TRUE, class |-> {}]

RECURSIVE MatchFrom(_, _, _, _)
MatchFrom(pattern, i, name, j) ==
    IF i > Len(pattern) THEN j > Len(name)
    ELSE IF pattern[i].star
         THEN \/ MatchFrom(pattern, i + 1, name, j)
              \/ /\ j <= Len(name)
                 /\ name[j] # "/"
                 /\ MatchFrom(pattern, i, name, j + 1)
    ELSE /\ j <= Len(name)
         /\ name[j] \in pattern[i].class
         /\ MatchFrom(pattern, i + 1, name, j + 1)

Match(pattern, name) == MatchFrom(pattern, 1, name, 1)

(***************************************************************************)
(* dedup.go: DeDuplicate                                                   *)
(***************************************************************************)

NoError == <<>>

\* errors wrapped with fmt.Errorf("...: %w") or errors.Wrap: the new message
\* first, the cause after it.
Wrap(msg, cause) == <<msg>> \o cause

\* DeDupTask{}
EmptyTask == [ToKeep |-> <<>>, ReCreateLinks |-> <<>>, DeleteFiles |-> <<>>]

\* sort.Strings: insertion into an increasing list.
RECURSIVE Insert(_, _)
Insert(s, sorted) ==
    IF sorted = <<>> THEN <<s>>
    ELSE IF StrLess(s, Head(sorted)) THEN <<s>> \o sorted
    ELSE <<Head(sorted)>> \o Insert(s, Tail(sorted))

RECURSIVE SortStrings(_)
SortStrings(ss) ==
    IF ss = <<>> THEN <<>>
    ELSE With(SortStrings(Tail(ss)), LAMBDA rest : Insert(Head(ss), rest))

\* pathInArchive: the path relative to the archive root, an error when the
\* relative path starts with "..".
pathInArchive(archiveRoot, filename) ==
    LET r == Rel(archiveRoot, filename)
    IN  IF HasPrefix(r.rel, DotDot)
        THEN [rel |-> <<>>, err |-> <<"path is outside of archive">>]
        ELSE r

\* "[0-9][0-9][0-9][0-9]/[0-9][0-9]/*"
CalendarPattern ==
    << Class(Digits), Class(Digits), Class(Digits), Class(Digits), Lit("/"),
       Class(Digits), Class(Digits), Lit("/"), Star >>

\* An isCalendarStoredFile that takes every path of three elements: "*/*/*"
isCalendarStoredAnyThree(filename) ==
    Match(<<Star, Lit("/"), Star, Lit("/"), Star>>, filename)

isCalendarStoredFile(filename) == Match(CalendarPattern, filename)

\* Classify without the foundInDirectory lookup: every path outside the
\* calendar directories becomes a link.
ClassifyEveryLink(st, f, inArchive) ==
    IF isCalendarStoredFile(inArchive)
    THEN IF st.ret.ToKeep = <<>>
         THEN [st EXCEPT !.ret.ToKeep = f]
         ELSE [st EXCEPT !.ret.DeleteFiles = Append(@, f)]
    ELSE [st EXCEPT !.ret.ReCreateLinks = Append(@, f)]

\* One pass of the loop body for file f with archive-relative path
\* inArchive: st is [ret, foundInDirectory].
Classify(st, f, inArchive) ==
    IF isCalendarStoredFile(inArchive)
    THEN IF st.ret.ToKeep = <<>>
         THEN [st EXCEPT !.ret.ToKeep = f]
         ELSE [st EXCEPT !.ret.DeleteFiles = Append(@, f)]
    ELSE IF Dir(inArchive) \in st.foundInDirectory
         THEN [st EXCEPT !.ret.DeleteFiles = Append(@, f)]
         ELSE [ret |-> [st.ret EXCEPT !.ReCreateLinks = Append(@, f)],
               foundInDirectory |-> st.foundInDirectory \union {Dir(inArchive)}]

\* NotInArchive returning the task filled so far instead of DeDupTask{}.
NotInArchivePartialTask(st, cause) ==
    [task |-> st.ret, err |-> Wrap("failed to find path in directory", cause)]

\* What the loop returns when a path is not in the archive.
NotInArchive(st, cause) ==
    [task |-> EmptyTask, err |-> Wrap("failed to find path in directory", cause)]

\* Finish promoting the first link to ToKeep when no calendar file was found.
FinishPromotesLink(st) ==
    IF st.ret.ToKeep = <<>> /\ st.ret.ReCreateLinks = <<>>
    THEN [task |-> EmptyTask, err |-> <<"there is no file in calendar directory">>]
    ELSE IF st.ret.ToKeep = <<>>
    THEN [task |-> [st.ret EXCEPT !.ToKeep = Head(st.ret.ReCreateLinks),
                                  !.ReCreateLinks = Tail(st.ret.ReCreateLinks)],
          err |-> NoError]
    ELSE [task |-> st.ret, err |-> NoError]

\* What DeDuplicate returns after the loop.
Finish(st) ==
    IF st.ret.ToKeep = <<>>
    THEN [task |-> EmptyTask, err |-> <<"there is no file in calendar directory">>]
    ELSE [task |-> st.ret, err |-> NoError]

RECURSIVE DeDupLoop(_, _, _, _)
DeDupLoop(archiveRoot, files, i, st) ==
    IF i > Len(files) THEN Finish(st)
    ELSE With(pathInArchive(archiveRoot, files[i]), LAMBDA r :
           IF r.err # NoError THEN NotInArchive(st, r.err)
           ELSE With(Classify(st, files[i], r.rel), LAMBDA next :
                  DeDupLoop(archiveRoot, files, i + 1, next)))

\* A DeDuplicate that walks the slice in the order it was given.
DeDuplicateUnsorted(archiveRoot, files) ==
    DeDupLoop(archiveRoot, files, 1, [ret |-> EmptyTask, foundInDirectory |-> {}])

\* DeDuplicate(archiveRoot, duplicateFiles): [task, err]
DeDuplicate(archiveRoot, files) ==
    With(SortStrings(files), LAMBDA sortedFiles :
      DeDupLoop(archiveRoot, sortedFiles, 1,
                [ret |-> EmptyTask, foundInDirectory |-> {}]))

(***************************************************************************)
(* The filesystem: os.Remove, os.Link, os.MkdirAll, os.Rename, files.Copy  *)
(***************************************************************************)

\* files maps each file path to its inode, data maps each inode in use to
\* its content; two paths are hard links of one file when they share the
\* inode.  An inode no path names any more is freed, and a new file takes
\* the smallest free inode number.
EmptyFS == [files |-> <<>>, dirs |-> {}, data |-> <<>>]

InodesInUse(files) == {files[p] : p \in DOMAIN files}

Collect(f) == [f EXCEPT !.data = [i \in InodesInUse(f.files) |-> f.data[i]]]

FreeInode(f) == CHOOSE i \in 1..(Cardinality(DOMAIN f.data) + 1) : i \notin DOMAIN f.data

NoCall == [fn |-> "none"]

ErrNotExist == <<"no such file or directory">>
ErrExist == <<"file exists">>
ErrNotDir == <<"not a directory">>
ErrNotEmpty == <<"directory not empty">>
ErrIO == <<"input/output error">>

\* os.IsNotExist
IsNotExist(e) == e = ErrNotExist

IsFile(f, p) == p \in DOMAIN f.files
DirExists(f, d) == d = Dot \/ d = <<"/">> \/ d \in f.dirs

\* p and its parents, the current directory and "/" left out.
RECURSIVE Ancestors(_)
Ancestors(p) ==
    IF p = Dot \/ p = <<"/">> \/ p = <<>> THEN {}
    ELSE {p} \union Ancestors(Dir(p))

Without(files, p) == [q \in DOMAIN files \ {p} |-> files[q]]

\* os.Remove: unlinks a file, removes an empty directory.
osRemove(f, name) ==
    IF IsFile(f, name)
    THEN [fs |-> Collect([f EXCEPT !.files = Without(@, name)]), err |-> NoError]
    ELSE IF name \in f.dirs
    THEN IF \E q \in (DOMAIN f.files) \union f.dirs : q # name /\ Dir(q) = name
         THEN [fs |-> f, err |-> ErrNotEmpty]
         ELSE [fs |-> [f EXCEPT !.dirs = @ \ {name}], err |-> NoError]
    ELSE [fs |-> f, err |-> ErrNotExist]

\* os.Link(old, new): new becomes another name of old's inode.
osLink(f, old, new) ==
    IF ~IsFile(f, old) THEN [fs |-> f, err |-> ErrNotExist]
    ELSE IF IsFile(f, new) \/ new \in f.dirs THEN [fs |-> f, err |-> ErrExist]
    ELSE IF ~DirExists(f, Dir(new)) THEN [fs |-> f, err |-> ErrNotExist]
    ELSE [fs |-> [f EXCEPT !.files = (new :> f.files[old]) @@ @], err |-> NoError]

\* os.MkdirAll: the directory and every missing parent.
osMkdirAll(f, dirPath) ==
    IF \E a \in Ancestors(dirPath) : IsFile(f, a)
    THEN [fs |-> f, err |-> ErrNotDir]
    ELSE [fs |-> [f EXCEPT !.dirs = @ \union Ancestors(dirPath)], err |-> NoError]

\* os.Rename(old, new): new, if it is there, is replaced.
osRename(f, old, new) ==
    IF ~IsFile(f, old) THEN [fs |-> f, err |-> ErrNotExist]
    ELSE IF new \in f.dirs THEN [fs |-> f, err |-> ErrExist]
    ELSE IF ~DirExists(f, Dir(new)) THEN [fs |-> f, err |-> ErrNotExist]
    ELSE IF IsFile(f, new) /\ f.files[new] = f.files[old]
    THEN [fs |-> f, err |-> NoError]
    ELSE [fs |-> Collect([f EXCEPT !.files = (new :> f.files[old]) @@ Without(@, old)]),
          err |-> NoError]

\* files.Copy(src, dst): dst is truncated, or created if not present, and
\* holds the content afterwards.
Copy(f, dst, content) ==
    IF dst \in f.dirs THEN [fs |-> f, err |-> ErrExist]
    ELSE IF ~DirExists(f, Dir(dst)) THEN [fs |-> f, err |-> ErrNotExist]
    ELSE IF IsFile(f, dst)
    THEN [fs |-> [f EXCEPT !.data = (f.files[dst] :> content) @@ @], err |-> NoError]
    ELSE [fs |-> [f EXCEPT !.files = (dst :> FreeInode(f)) @@ @,
                           !.data = (FreeInode(f) :> content) @@ @],
          err |-> NoError]

\* What a copy that fails half way leaves in dst.
PartialContent == "partial"

(***************************************************************************)
(* The source files Sort is run on                                         *)
(***************************************************************************)

Date(y, mo, d, h, mi, sec, ns) ==
    [year |-> y, month |-> mo, day |-> d, hour |-> h, minute |-> mi,
     second |-> sec, nsec |-> ns]

\* 2019-04-17 13:30:44, the same second 5 ns later, and 2019-11-02 09:05:07
DateA == Date(2019, 4, 17, 13, 30, 44, 0)
DateALater == Date(2019, 4, 17, 13, 30, 44, 5)
DateB == Date(2019, 11, 2, 9, 5, 7, 0)

\* sha256.New224().Size()
DigestSize == 28

\* The SHA-224 sums of the contents: "jpgA" and "jpgA2" differ, and their
\* sums agree in the first four bytes (53 78 42 c8).
Sum224 ==
    [c \in {"jpgA", "jpgA2", "jpgB", "text", "partial"} |->
        CASE c = "jpgA" -> <<83, 120, 66, 200>> \o [i \in 1..(DigestSize - 4) |-> 17]
          [] c = "jpgA2" -> <<83, 120, 66, 200>> \o [i \in 1..(DigestSize - 4) |-> 34]
          [] c = "jpgB" -> <<10, 0, 255, 1>> \o [i \in 1..(DigestSize - 4) |-> 51]
          [] c = "text" -> <<222, 173, 190, 239>> \o [i \in 1..(DigestSize - 4) |-> 68]
          [] c = "partial" -> <<1, 2, 3, 4>> \o [i \in 1..(DigestSize - 4) |-> 85]]

wInput == <<"i", "n", "p", "u", "t">>

SourceDir == wInput

\* input/x/p.jpg and input/y/q.jpg: the same bytes and capture date in two
\* directories.  input/r.JPG: the same again, another extension, in the
\* source root.  input/x/s.jpg: other bytes with the same first four digest
\* bytes, taken in the same second.  input/y/t.jpg: another picture.
\* input/n.txt: not a media file.
SrcXP == JoinSlash(<<wInput, <<"x">>, <<"p", ".", "j", "p", "g">> >>)
SrcYQ == JoinSlash(<<wInput, <<"y">>, <<"q", ".", "j", "p", "g">> >>)
SrcR == JoinSlash(<<wInput, <<"r", ".", "J", "P", "G">> >>)
SrcXS == JoinSlash(<<wInput, <<"x">>, <<"s", ".", "j", "p", "g">> >>)
SrcYT == JoinSlash(<<wInput, <<"y">>, <<"t", ".", "j", "p", "g">> >>)
SrcTxt == JoinSlash(<<wInput, <<"n", ".", "t", "x", "t">> >>)

Sources ==
    { [name |-> SrcXP, media |-> TRUE, date |-> DateA, content |-> "jpgA"],
      [name |-> SrcYQ, media |-> TRUE, date |-> DateA, content |-> "jpgA"],
      [name |-> SrcR, media |-> TRUE, date |-> DateA, content |-> "jpgA"],
      [name |-> SrcXS, media |-> TRUE, date |-> DateALater, content |-> "jpgA2"],
      [name |-> SrcYT, media |-> TRUE, date |-> DateB, content |-> "jpgB"],
      [name |-> SrcTxt, media |-> FALSE, date |-> DateB, content |-> "text"] }

SourceOf(name) == CHOOSE src \in Sources : src.name = name

ContentOf(name) == SourceOf(name).content

(***************************************************************************)
(* file_system.go: the FileSystem port                                     *)
(***************************************************************************)

\* A fault makes the at-th filesystem call of an invocation fail with an I/O
\* error (at = 0: none does); partial says whether a failing copy had
\* already written to its destination.
NoFault == [at |-> 0, partial |-> FALSE]

\* The state of an invocation: the filesystem, the calls made so far (log)
\* and the error of the last one.
Begin(f) == [fs |-> f, log |-> <<>>, err |-> NoError]

\* A logging FileSystem whose delete function removes the file all the same.
ExecLoggingDeletes(fsys, f, c) ==
    IF fsys = "logging" /\ c.op \in {"link", "mkdir"}
    THEN [fs |-> f, err |-> NoError]
    ELSE CASE c.op = "remove" ->
                 [fs |-> osRemove(f, c.path).fs,
                  err |-> IF fsys = "logging" THEN NoError ELSE osRemove(f, c.path).err]
           [] c.op = "link" -> osLink(f, c.target, c.path)
           [] c.op = "mkdir" -> osMkdirAll(f, c.path)
           [] c.op = "rename" -> osRename(f, c.target, c.path)
           [] c.op = "copy" -> Copy(f, c.path, ContentOf(c.target))

\* One filesystem call c = [op, path, target, by] of an invocation.  With
\* the logging FileSystem (NewLoggingFileSystem) remove, link and mkdir only
\* print; copy and rename are not part of the port.
Exec(fsys, f, c) ==
    IF fsys = "logging" /\ c.op \in {"remove", "link", "mkdir"}
    THEN [fs |-> f, err |-> NoError]
    ELSE CASE c.op = "remove" -> osRemove(f, c.path)
           [] c.op = "link" -> osLink(f, c.target, c.path)
           [] c.op = "mkdir" -> osMkdirAll(f, c.path)
           [] c.op = "rename" -> osRename(f, c.target, c.path)
           [] c.op = "copy" -> Copy(f, c.path, ContentOf(c.target))

Faulty(fsys, f, c, fault) ==
    IF c.op = "copy" /\ fault.partial
    THEN [fs |-> Copy(f, c.path, PartialContent).fs, err |-> ErrIO]
    ELSE [fs |-> f, err |-> ErrIO]

Do(fsys, rs, fault, c) ==
    With(IF fault.at = Len(rs.log) + 1
            /\ ~(fsys = "logging" /\ c.op \in {"remove", "link", "mkdir"})
         THEN Faulty(fsys, rs.fs, c, fault)
         ELSE Exec(fsys, rs.fs, c),
         LAMBDA r : [fs |-> r.fs, log |-> Append(rs.log, c), err |-> r.err])

\* FileSystem.EnsureAbsent
EnsureAbsent(fsys, rs, fault, name, by) ==
    With(Do(fsys, rs, fault, [op |-> "remove", path |-> name, target |-> <<>>, by |-> by]),
         LAMBDA r :
           IF r.err # NoError /\ ~IsNotExist(r.err)
           THEN [r EXCEPT !.err = Wrap("failed to remove existing file before creating link", r.err)]
           ELSE [r EXCEPT !.err = NoError])

\* FileSystem.EnsureDirectory
EnsureDirectory(fsys, rs, fault, name, by) ==
    Do(fsys, rs, fault, [op |-> "mkdir", path |-> name, target |-> <<>>, by |-> by])

\* fs.linker(target, p)
Linker(fsys, rs, fault, target, p, by) ==
    Do(fsys, rs, fault, [op |-> "link", path |-> p, target |-> target, by |-> by])

\* A CreateLinks that does not remove what is at p before it links.
CreateLinkNoRemove(fsys, rs, fault, p, target) ==
    With(EnsureDirectory(fsys, rs, fault, Dir(p), "CreateLinks"), LAMBDA r2 :
      IF r2.err # NoError
      THEN [r2 EXCEPT !.err = Wrap("can not create directory for link", r2.err)]
      ELSE With(Linker(fsys, r2, fault, target, p, "CreateLinks"), LAMBDA r3 :
        IF r3.err # NoError
        THEN [r3 EXCEPT !.err = Wrap("can not hard link to all archive", r3.err)]
        ELSE r3))

\* A CreateLinks that links only where nothing is at p yet.
CreateLinkIfAbsent(fsys, rs, fault, p, target) ==
    IF IsFile(rs.fs, p) THEN rs
    ELSE CreateLinkNoRemove(fsys, rs, fault, p, target)

\* One pass of the loop of CreateLinks, for path p.
CreateLink(fsys, rs, fault, p, target) ==
    With(EnsureAbsent(fsys, rs, fault, p, "CreateLinks"), LAMBDA r1 :
      IF r1.err # NoError
      THEN [r1 EXCEPT !.err = Wrap("can't ensure file is not currently absent", r1.err)]
      ELSE With(EnsureDirectory(fsys, r1, fault, Dir(p), "CreateLinks"), LAMBDA r2 :
        IF r2.err # NoError
        THEN [r2 EXCEPT !.err = Wrap("can not create directory for link", r2.err)]
        ELSE With(Linker(fsys, r2, fault, target, p, "CreateLinks"), LAMBDA r3 :
          IF r3.err # NoError
          THEN [r3 EXCEPT !.err = Wrap("can not hard link to all archive", r3.err)]
          ELSE r3)))

\* FileSystem.CreateLinks(paths, target)
RECURSIVE CreateLinksFrom(_, _, _, _, _, _)
CreateLinksFrom(fsys, rs, fault, paths, i, target) ==
    IF i > Len(paths) THEN rs
    ELSE With(CreateLink(fsys, rs, fault, paths[i], target), LAMBDA r :
           IF r.err # NoError THEN r
           ELSE CreateLinksFrom(fsys, r, fault, paths, i + 1, target))

CreateLinks(fsys, rs, fault, paths, target) ==
    CreateLinksFrom(fsys, rs, fault, paths, 1, target)

(***************************************************************************)
(* algorithm.go: Algorithm.Init and Algorithm.Sort                         *)
(***************************************************************************)

DecimalDigits == <<"0", "1", "2", "3", "4", "5", "6", "7", "8", "9">>
HexDigits == DecimalDigits \o <<"a", "b", "c", "d", "e", "f">>

\* %d of a number >= 0
RECURSIVE Itoa(_)
Itoa(n) ==
    IF n < 10 THEN <<DecimalDigits[n + 1]>>
    ELSE Itoa(n \div 10) \o <<DecimalDigits[(n % 10) + 1]>>

\* %0<w>d of a number >= 0: zeros in front up to the width w
RECURSIVE Pad(_, _)
Pad(n, w) ==
    LET d == Itoa(n) IN [i \in 1..(w - Len(d)) |-> "0"] \o d

\* fmt.Sprintf("%x", sum)
RECURSIVE Hex(_)
Hex(sum) ==
    IF sum = <<>> THEN <<>>
    ELSE <<HexDigits[(Head(sum) \div 16) + 1], HexDigits[(Head(sum) % 16) + 1]>>
         \o Hex(Tail(sum))

\* path.Ext: the suffix of the last element from its last dot on
RECURSIVE ExtFrom(_, _)
ExtFrom(p, i) ==
    IF i = 0 \/ p[i] = "/" THEN <<>>
    ELSE IF p[i] = "." THEN SubSeq(p, i, Len(p))
    ELSE ExtFrom(p, i - 1)

Ext(p) == ExtFrom(p, Len(p))

\* date.Format(targetTimeFormat), targetTimeFormat = "20060102_150405"
FormatTime(t) ==
    Pad(t.year, 4) \o Pad(t.month, 2) \o Pad(t.day, 2) \o <<"_">>
    \o Pad(t.hour, 2) \o Pad(t.minute, 2) \o Pad(t.second, 2)

getYearMonth(t) == <<t.year, t.month>>

\* A target directory whose month is written without the leading zero.
TargetDirPlainMonth(archiveDir, date) ==
    LET ym == getYearMonth(date)
    IN  Join(<<archiveDir, Itoa(ym[1]) \o <<"/">> \o Itoa(ym[2])>>)

\* A target directory that is the directory of the year.
TargetDirYearOnly(archiveDir, date) ==
    LET ym == getYearMonth(date)
    IN  Join(<<archiveDir, Itoa(ym[1])>>)

\* path.Join(a.archiveDir, fmt.Sprintf("%d/%02d", year, month))
TargetDir(archiveDir, date) ==
    LET ym == getYearMonth(date)
    IN  Join(<<archiveDir, Itoa(ym[1]) \o <<"/">> \o Pad(ym[2], 2)>>)

\* fmt.Sprintf("%s_%s%s", date.Format(targetTimeFormat),
\*             fmt.Sprintf("%x", sum)[0:8], path.Ext(fname))
TargetFileName(date, sum, fname) ==
    FormatTime(date) \o <<"_">> \o SubSeq(Hex(sum), 1, 8) \o Ext(fname)

wTmp == <<"e", "x", "i", "f", "s", "o", "r", "t", "e", "r", ".", "t", "m", "p">>

\* The Algorithm: archiveDir and sourceDir; its fileSystem is NewOSFileSystem().
NewAlgorithm(src, dst) == [archiveDir |-> dst, sourceDir |-> src]

allArchiveDir(a) == Join(<<a.archiveDir, wAll>>)
originArchiveDir(a) == Join(<<a.archiveDir, wOrigin>>)

\* originArchiveFileName: [name, err]
originArchiveFileName(a, sourceFileName, targetFileName) ==
    LET r == Rel(a.sourceDir, sourceFileName)
    IN  IF r.err # NoError
        THEN [name |-> <<>>, err |-> Wrap("failed to compute relative path in source", r.err)]
        ELSE [name |-> Join(<<originArchiveDir(a), Join(<<Dir(r.rel), targetFileName>>)>>),
              err |-> NoError]

\* Algorithm.Init: [fs, log, err]
AlgorithmInit(a, f, fault) ==
    With(EnsureDirectory("os", Begin(f), fault, allArchiveDir(a), "Init"), LAMBDA r1 :
      IF r1.err # NoError
      THEN [r1 EXCEPT !.err = Wrap("could not create target dir", r1.err)]
      ELSE With(EnsureDirectory("os", r1, fault, originArchiveDir(a), "Init"), LAMBDA r2 :
        IF r2.err # NoError
        THEN [r2 EXCEPT !.err = Wrap("could not create target dir", r2.err)]
        ELSE r2))

ErrNotMedia == <<"given file is not a media file">>

\* What the oracles answer: oracle is "ok", "mediaErr" (a.isMedia fails) or
\* "dateErr" (a.extractor fails); whether the file is a media file is a
\* property of the file.
IsMediaResult(src, oracle) ==
    IF oracle = "mediaErr"
    THEN [isMedia |-> FALSE, err |-> <<"failed to read file header">>]
    ELSE [isMedia |-> src.media, err |-> NoError]

ExtractorResult(src, oracle) ==
    IF oracle = "dateErr"
    THEN [date |-> Date(1, 1, 1, 0, 0, 0, 0), err |-> <<"failed to open or fstat file.">>]
    ELSE [date |-> src.date, err |-> NoError]

\* A head of Sort that does not look at isMedia.
SortChecksAnyFile(src, oracle) ==
    LET m == IsMediaResult(src, oracle)
        d == ExtractorResult(src, oracle)
    IN  IF m.err # NoError THEN Wrap("could not determine media type", m.err)
        ELSE IF d.err # NoError
        THEN Wrap("could not determine creation date of media file", d.err)
        ELSE NoError

\* The head of Sort, up to the capture date: the error it returns, nil when
\* Sort goes on.
SortChecks(src, oracle) ==
    LET m == IsMediaResult(src, oracle)
        d == ExtractorResult(src, oracle)
    IN  IF m.err # NoError THEN Wrap("could not determine media type", m.err)
        ELSE IF ~m.isMedia THEN ErrNotMedia
        ELSE IF d.err # NoError
        THEN Wrap("could not determine creation date of media file", d.err)
        ELSE NoError

\* An end of Sort that returns no path when CreateLinks fails.
SortLinksNoPathOnFailure(a, rs, fault, src, targetFileName, targetFilePath) ==
    With(originArchiveFileName(a, src.name, targetFileName), LAMBDA origin :
      IF origin.err # NoError
      THEN [fs |-> rs.fs, ret |-> targetFilePath, log |-> rs.log,
            err |-> Wrap("failed to determine relative path", origin.err)]
      ELSE With(CreateLinks("os", rs, fault,
                            <<Join(<<allArchiveDir(a), targetFileName>>), origin.name>>,
                            targetFilePath),
                LAMBDA r4 :
                  [fs |-> r4.fs, log |-> r4.log, err |-> r4.err,
                   ret |-> IF r4.err # NoError THEN <<>> ELSE targetFilePath]))

\* The end of Sort, from the rename on: the index links.
SortLinks(a, rs, fault, src, targetFileName, targetFilePath) ==
    With(originArchiveFileName(a, src.name, targetFileName), LAMBDA origin :
      IF origin.err # NoError
      THEN [fs |-> rs.fs, ret |-> targetFilePath, log |-> rs.log,
            err |-> Wrap("failed to determine relative path", origin.err)]
      ELSE With(CreateLinks("os", rs, fault,
                            <<Join(<<allArchiveDir(a), targetFileName>>), origin.name>>,
                            targetFilePath),
                LAMBDA r4 :
                  [fs |-> r4.fs, ret |-> targetFilePath, log |-> r4.log, err |-> r4.err]))

\* A middle of Sort that removes the temporary file when the copy fails.
SortPlaceRemovesTmp(a, f, fault, src, date) ==
    With(TargetDir(a.archiveDir, date), LAMBDA targetDir :
    With(EnsureDirectory("os", Begin(f), fault, targetDir, "Sort"), LAMBDA r1 :
      IF r1.err # NoError
      THEN [fs |-> r1.fs, ret |-> <<>>, log |-> r1.log,
            err |-> Wrap("could not create target dir", r1.err)]
      ELSE
    With(Join(<<targetDir, wTmp>>), LAMBDA tmpFile :
    With(Do("os", r1, fault,
            [op |-> "copy", path |-> tmpFile, target |-> src.name, by |-> "Sort"]),
         LAMBDA r2 :
      IF r2.err # NoError
      THEN [fs |-> osRemove(r2.fs, tmpFile).fs, ret |-> tmpFile,
            log |-> Append(r2.log, [op |-> "remove", path |-> tmpFile,
                                    target |-> <<>>, by |-> "Sort"]),
            err |-> Wrap("could not copy file and compute checksum", r2.err)]
      ELSE
    With(TargetFileName(date, Sum224[src.content], src.name), LAMBDA targetFileName :
    With(Join(<<targetDir, targetFileName>>), LAMBDA targetFilePath :
    With(Do("os", r2, fault,
            [op |-> "rename", path |-> targetFilePath, target |-> tmpFile, by |-> "Sort"]),
         LAMBDA r3 :
      IF r3.err # NoError
      THEN [fs |-> r3.fs, ret |-> tmpFile, log |-> r3.log,
            err |-> Wrap("could not mv temporary file to target name", r3.err)]
      ELSE SortLinks(a, r3, fault, src, targetFileName, targetFilePath))))))))

\* The middle of Sort: the target directory, the copy and the rename.
SortPlace(a, f, fault, src, date) ==
    With(TargetDir(a.archiveDir, date), LAMBDA targetDir :
    With(EnsureDirectory("os", Begin(f), fault, targetDir, "Sort"), LAMBDA r1 :
      IF r1.err # NoError
      THEN [fs |-> r1.fs, ret |-> <<>>, log |-> r1.log,
            err |-> Wrap("could not create target dir", r1.err)]
      ELSE
    With(Join(<<targetDir, wTmp>>), LAMBDA tmpFile :
    With(Do("os", r1, fault,
            [op |-> "copy", path |-> tmpFile, target |-> src.name, by |-> "Sort"]),
         LAMBDA r2 :
      IF r2.err # NoError
      THEN [fs |-> r2.fs, ret |-> tmpFile, log |-> r2.log,
            err |-> Wrap("could not copy file and compute checksum", r2.err)]
      ELSE
    With(TargetFileName(date, Sum224[src.content], src.name), LAMBDA targetFileName :
    With(Join(<<targetDir, targetFileName>>), LAMBDA targetFilePath :
    With(Do("os", r2, fault,
            [op |-> "rename", path |-> targetFilePath, target |-> tmpFile, by |-> "Sort"]),
         LAMBDA r3 :
      IF r3.err # NoError
      THEN [fs |-> r3.fs, ret |-> tmpFile, log |-> r3.log,
            err |-> Wrap("could not mv temporary file to target name", r3.err)]
      ELSE SortLinks(a, r3, fault, src, targetFileName, targetFilePath))))))))

\* Algorithm.Sort(fname): [fs, ret, err, log]
Sort(a, f, src, oracle, fault) ==
    With(SortChecks(src, oracle), LAMBDA chk :
      IF chk # NoError
      THEN [fs |-> f, ret |-> <<>>, err |-> chk, log |-> <<>>]
      ELSE SortPlace(a, f, fault, src, ExtractorResult(src, oracle).date))

(***************************************************************************)
(* cmd/sort.go: Init, then Sort file by file                               *)
(***************************************************************************)

\* How many times Sort is called in a run, and how many I/O faults strike.
MaxCalls == 3
MaxFaults == 1

Algo == NewAlgorithm(SourceDir, ArchiveRoot)

\* The faults that strike a run whose fault-free log is log.
Faults(log) ==
    {NoFault} \union
    (IF faults < MaxFaults
     THEN {[at |-> k, partial |-> b] :
              k \in 1..Len(log), b \in {FALSE, TRUE}} \ 
          {[at |-> k, partial |-> TRUE] : k \in {i \in 1..Len(log) : log[i].op # "copy"}}
     ELSE {})

InitSort ==
    /\ pc = "new"
    /\ input = <<>>
    /\ duplicateFiles = <<>>
    /\ task = EmptyTask
    /\ err = NoError
    /\ fs = EmptyFS
    /\ call = NoCall
    /\ calls = 0
    /\ firstPath = <<>>
    /\ faults = 0
    /\ creator = "os"
    /\ start = fs
    /\ linkFailed = {}
    /\ WatchIdle
    /\ OtherIdle
    /\ dryRun = FALSE

\* err := a.Init(); a failure ends the program (os.Exit(1))
CallInit ==
    /\ pc = "new"
    /\ \E fault \in Faults(AlgorithmInit(Algo, fs, NoFault).log) :
       \E r \in {AlgorithmInit(Algo, fs, fault)} :
             /\ fs' = r.fs
             /\ err' = r.err
             /\ call' = [fn |-> "Init", src |-> <<>>, oracle |-> "ok", fault |-> fault,
                         ret |-> <<>>, err |-> r.err, log |-> r.log, pre |-> fs]
             /\ faults' = faults + (IF fault.at > 0 THEN 1 ELSE 0)
             /\ pc' = IF r.err = NoError THEN "ready" ELSE "exit"
    /\ UNCHANGED <<input, duplicateFiles, task, calls, firstPath, creator, start,
                   linkFailed, dryRun, watchVars, otherVars>>

\* The call gave up in CreateLinks: the last filesystem call it made was one
\* of CreateLinks, and it failed.
FailedAtLinks(r) ==
    /\ r.err # NoError
    /\ r.log # <<>>
    /\ r.log[Len(r.log)].by = "CreateLinks"

\* n, err := a.Sort(f)
CallSort ==
    /\ pc = "ready"
    /\ calls < MaxCalls
    /\ \E src \in Sources, oracle \in {"ok", "mediaErr", "dateErr"} :
       \E fault \in Faults(Sort(Algo, fs, src, oracle, NoFault).log) :
       \E r \in {Sort(Algo, fs, src, oracle, fault)} :
             /\ fs' = r.fs
             /\ err' = r.err
             /\ call' = [fn |-> "Sort", src |-> src.name, oracle |-> oracle, fault |-> fault,
                         ret |-> r.ret, err |-> r.err, log |-> r.log, pre |-> fs,
                         again |-> src.name \in DOMAIN firstPath,
                         relink |-> src.name \in linkFailed]
             /\ linkFailed' = IF FailedAtLinks(r)
                              THEN linkFailed \union {src.name}
                              ELSE linkFailed
             /\ faults' = faults + (IF fault.at > 0 THEN 1 ELSE 0)
             /\ firstPath' = IF r.err = NoError /\ src.name \notin DOMAIN firstPath
                             THEN (src.name :> r.ret) @@ firstPath
                             ELSE firstPath
    /\ calls' = calls + 1
    /\ pc' = "Sort"
    /\ UNCHANGED <<input, duplicateFiles, task, creator, start, dryRun, watchVars, otherVars>>

\* The caller prints the outcome and goes on to the next file.
Report ==
    /\ pc = "Sort"
    /\ pc' = "ready"
    /\ call' = NoCall
    /\ err' = NoError
    /\ UNCHANGED <<input, duplicateFiles, task, fs, calls, firstPath, faults, creator,
                   start, linkFailed, dryRun, watchVars, otherVars>>

NextSort == CallInit \/ CallSort \/ Report

SpecSort == InitSort /\ [][NextSort]_vars

(***************************************************************************)
(* cmd/sort.go: the run of the sort command                                *)
(***************************************************************************)

\* The files below the source directory, how many of them the initial walk
\* finds at most, and how many events the watcher delivers at most.
WalkFiles == {SrcTxt, SrcXP, SrcYQ}
MaxFiles == 2
MaxEvents == 1

\* exploration.InitialFiles: filepath.Walk visits the files in lexical
\* order (for the files of WalkFiles the order of the path strings).
RECURSIVE InitialFiles(_)
InitialFiles(found) ==
    IF found = {} THEN <<>>
    ELSE With(CHOOSE f \in found : \A g \in found \ {f} : StrLess(f, g),
              LAMBDA first : <<first>> \o InitialFiles(found \ {first}))

\* What the command prints after a call of Sort on f.
Printed(f, r) ==
    IF r.err # NoError /\ r.err # ErrNotMedia
    THEN [text |-> "Can't sort file", file |-> f, what |-> r.err]
    ELSE [text |-> "-->", file |-> f, what |-> r.ret]

\* A batch loop that ends the program at the first error other than the
\* sentinel.
AfterSortExitOnError(r) ==
    IF r.err # NoError /\ r.err # ErrNotMedia THEN "exit" ELSE "batch"

\* Where the batch loop goes after a call of Sort: it has neither break nor
\* return, so it goes on whatever the call returned.
AfterSort(r) == "batch"

InitCommand ==
    /\ pc = "new"
    /\ input \in {InitialFiles(found) :
                     found \in {w \in SUBSET WalkFiles : Cardinality(w) <= MaxFiles}}
    /\ dryRun \in BOOLEAN
    /\ duplicateFiles = <<>>
    /\ task = EmptyTask
    /\ err = NoError
    /\ fs = EmptyFS
    /\ call = NoCall
    /\ calls = 0
    /\ firstPath = <<>>
    /\ faults = 0
    /\ creator = "os"
    /\ start = fs
    /\ linkFailed = {}
    /\ WatchIdle
    /\ OtherIdle

\* a := archive.NewAlgorithm(srcDir, dstDir); err := a.Init(): a failure
\* ends the program.  The dry-run flag is not read.
RunInit ==
    /\ pc = "new"
    /\ \E fault \in Faults(AlgorithmInit(Algo, fs, NoFault).log) :
       \E r \in {AlgorithmInit(Algo, fs, fault)} :
             /\ fs' = r.fs
             /\ err' = r.err
             /\ call' = [fn |-> "Init", src |-> <<>>, oracle |-> "ok", fault |-> fault,
                         ret |-> <<>>, err |-> r.err, log |-> r.log, pre |-> fs]
             /\ faults' = faults + (IF fault.at > 0 THEN 1 ELSE 0)
             /\ pc' = IF r.err = NoError THEN "batch" ELSE "exit"
    /\ UNCHANGED <<input, duplicateFiles, task, calls, firstPath, creator, start,
                   linkFailed, dryRun, watchVars, otherVars>>

\* n, err := a.Sort(f) and the line printed after it; next is where the
\* command goes on.
InvokeSort(f, next(_)) ==
    /\ \E oracle \in {"ok", "mediaErr", "dateErr"} :
       \E fault \in Faults(Sort(Algo, fs, SourceOf(f), oracle, NoFault).log) :
       \E r \in {Sort(Algo, fs, SourceOf(f), oracle, fault)} :
             /\ fs' = r.fs
             /\ err' = r.err
             /\ call' = [fn |-> "Sort", src |-> f, oracle |-> oracle, fault |-> fault,
                         ret |-> r.ret, err |-> r.err, log |-> r.log, pre |-> fs,
                         again |-> f \in DOMAIN firstPath,
                         relink |-> f \in linkFailed,
                         printed |-> Printed(f, r)]
             /\ faults' = faults + (IF fault.at > 0 THEN 1 ELSE 0)
             /\ firstPath' = IF r.err = NoError /\ f \notin DOMAIN firstPath
                             THEN (f :> r.ret) @@ firstPath
                             ELSE firstPath
             /\ linkFailed' = IF FailedAtLinks(r)
                              THEN linkFailed \union {f}
                              ELSE linkFailed
             /\ pc' = next(r)
    /\ calls' = calls + 1
    /\ UNCHANGED <<input, duplicateFiles, task, creator, start, dryRun, watchVars, otherVars>>

\* for _, f := range fs { n, err := a.Sort(f); ... }
BatchSort ==
    /\ pc = "batch"
    /\ calls < Len(input)
    /\ InvokeSort(input[calls + 1], AfterSort)

\* The batch is over: the watcher is started.
StartWatch ==
    /\ pc = "batch"
    /\ calls = Len(input)
    /\ pc' = "watch"
    /\ UNCHANGED <<input, duplicateFiles, task, err, fs, call, calls, firstPath, faults,
                   creator, start, linkFailed, dryRun, watchVars, otherVars>>

\* case e := <-watcher.Events: a normal file is handed to Sort.
WatchSort ==
    /\ pc = "watch"
    /\ calls < Len(input) + MaxEvents
    /\ \E f \in WalkFiles : InvokeSort(f, LAMBDA r : "watch")

NextCommand == RunInit \/ BatchSort \/ StartWatch \/ WatchSort

SpecCommand == InitCommand /\ [][NextCommand]_vars

(***************************************************************************)
(* Algorithm.Sort called by two workers at a time                          *)
(***************************************************************************)

\* The archive after Init.
InitedArchive == AlgorithmInit(Algo, EmptyFS, NoFault).fs

\* The filesystem calls Sort makes for src as long as none fails, in order.
SortCalls(src) == Sort(Algo, InitedArchive, src, "ok", NoFault).log

\* The caller's partition: two media files whose capture dates differ in
\* year or month.
Partitioned(a, b) ==
    /\ a.media /\ b.media
    /\ getYearMonth(a.date) # getYearMonth(b.date)

\* The archive after Sort of a and then of b, both without a fault.
Sequential(f, a, b) == Sort(Algo, Sort(Algo, f, a, "ok", NoFault).fs, b, "ok", NoFault).fs

\* Two workers, each about to call Sort on its file, on an archive that is
\* fresh or already holds both files.
InitConcurrent ==
    /\ pc = "Sort"
    /\ \E a, b \in Sources :
          /\ Partitioned(a, b)
          /\ workers = << [src |-> a.name, plan |-> SortCalls(a), at |-> 0, err |-> NoError],
                          [src |-> b.name, plan |-> SortCalls(b), at |-> 0, err |-> NoError] >>
          /\ fs \in {InitedArchive, Sequential(InitedArchive, a, b)}
    /\ start = fs
    /\ input = <<>>
    /\ duplicateFiles = <<>>
    /\ task = EmptyTask
    /\ err = NoError
    /\ call = NoCall
    /\ calls = 0
    /\ firstPath = <<>>
    /\ faults = 0
    /\ creator = "os"
    /\ linkFailed = {}
    /\ dryRun = FALSE
    /\ WatchIdle
    /\ memoryFile = NoFile

\* A worker makes the next filesystem call of its Sort.  An error ends its
\* Sort, except that EnsureAbsent passes over a file that is not there.
WorkerStep ==
    /\ pc = "Sort"
    /\ \E i \in DOMAIN workers :
          /\ workers[i].err = NoError
          /\ workers[i].at < Len(workers[i].plan)
          /\ \E c \in {workers[i].plan[workers[i].at + 1]} :
             \E r \in {Exec("os", fs, c)} :
                /\ fs' = r.fs
                /\ workers' = [workers EXCEPT
                                 ![i].at = @ + 1,
                                 ![i].err = IF c.op = "remove" /\ IsNotExist(r.err)
                                            THEN NoError ELSE r.err]
    /\ calls' = calls + 1
    /\ UNCHANGED <<pc, input, duplicateFiles, task, err, call, firstPath, faults, creator,
                   start, linkFailed, dryRun, watchVars, memoryFile>>

NextConcurrent == WorkerStep

SpecConcurrent == InitConcurrent /\ [][NextConcurrent]_vars

(***************************************************************************)
(* exploration/recursive_watcher.go                                        *)
(***************************************************************************)

\* The directories and files that are created below the watched root while
\* the watcher runs.
WatchFoo == JoinSlash(<<SourceDir, wFoo>>)
WatchFooBar == JoinSlash(<<SourceDir, wFoo, wBar>>)
WatchTmpDir == JoinSlash(<<SourceDir, wTmp>>)
NewDirs == {WatchFoo, WatchFooBar, WatchTmpDir}
NewFiles ==
    {JoinSlash(<<SourceDir, wFoo, wAJpg>>),
     JoinSlash(<<SourceDir, wFoo, wTmp>>),
     JoinSlash(<<SourceDir, wFoo, wBar, wAJpg>>)}

\* The ignore patterns: each is a glob "**<suffix>", which matches the names
\* that end in the suffix.
ignores == << <<".", "t", "m", "p">> >>

HasSuffix(s, suffix) ==
    /\ Len(s) >= Len(suffix)
    /\ SubSeq(s, Len(s) - Len(suffix) + 1, Len(s)) = suffix

\* An isIgnored that finds no name ignored.
isIgnoredNever(gs, name) == \E i \in {} : HasSuffix(name, gs[i])

\* isIgnored(ignores, dir)
isIgnored(gs, name) == \E i \in 1..Len(gs) : HasSuffix(name, gs[i])

\* make(chan fsnotify.Event, 10)
EventsCap == 10

\* The kernel's side of the watcher: creating name in a watched directory
\* queues a Create event.
Notify(w, name) ==
    IF Dir(name) \in w.dirs
    THEN [w EXCEPT !.queue = Append(@, [Op |-> "CREATE", Name |-> name])]
    ELSE w

\* os.Stat(name): whether name is there and whether it is a directory.
Stat(f, name) ==
    IF name \in f.dirs THEN [err |-> NoError, isDir |-> TRUE]
    ELSE IF name \in DOMAIN f.files THEN [err |-> NoError, isDir |-> FALSE]
    ELSE [err |-> ErrNotExist, isDir |-> FALSE]

\* r.watcher.Add(name), which succeeds (ok) or returns an error that
\* processEvent drops.
WatcherAdd(w, name, ok) ==
    IF ok THEN [w EXCEPT !.dirs = @ \union {name}] ELSE w

\* RecursiveWatcher.processEvent(e): the watcher after it.
processEvent(w, f, e, ok) ==
    IF e.Op = "CREATE"
    THEN With(Stat(f, e.Name), LAMBDA finfo :
           IF finfo.err # NoError THEN w
           ELSE IF finfo.isDir THEN WatcherAdd(w, e.Name, ok)
           ELSE w)
    ELSE w

\* run hands e to processEvent, which calls r.watcher.Add for it.
AddIsCalled(f, e) ==
    /\ ~isIgnored(ignores, e.Name)
    /\ e.Op = "CREATE"
    /\ Stat(f, e.Name).err = NoError
    /\ Stat(f, e.Name).isDir

\* NewRecursiveWatcher(ctx, ignores, SourceDir): the root is watched, the
\* channels are empty and run is at its select.
InitWatch ==
    /\ pc = "select"
    /\ input = <<>>
    /\ duplicateFiles = <<>>
    /\ task = EmptyTask
    /\ err = NoError
    /\ fs = osMkdirAll(EmptyFS, SourceDir).fs
    /\ call = NoCall
    /\ calls = 0
    /\ firstPath = <<>>
    /\ faults = 0
    /\ creator = "os"
    /\ start = fs
    /\ linkFailed = {}
    /\ dryRun = FALSE
    /\ watcher = [dirs |-> {SourceDir}, queue |-> <<>>]
    /\ Events = <<>>
    /\ pending = NoEvent
    /\ forwarded = {}
    /\ owed = {}
    /\ received = <<>>
    /\ taken = <<>>
    /\ ctx = "live"
    /\ reading = TRUE
    /\ OtherIdle

\* What the watcher owes for the creation of name: an event, if name is not
\* ignored and lies in a directory whose Create event has been sent; direct
\* tells whether that directory is the one that holds name.
Owed(name) ==
    IF ~isIgnored(ignores, name)
       /\ \E d \in forwarded : HasPrefix(name, d \o <<"/">>)
    THEN {[name |-> name, direct |-> Dir(name) \in forwarded]}
    ELSE {}

watchOther ==
    <<duplicateFiles, input, task, err, call, calls, firstPath, creator, start,
      linkFailed, dryRun, ctx, reading, otherVars>>

\* Somebody creates a directory below the root.
Mkdir ==
    /\ \E d \in NewDirs :
          /\ d \notin fs.dirs
          /\ Dir(d) \in fs.dirs
          /\ fs' = osMkdirAll(fs, d).fs
          /\ watcher' = Notify(watcher, d)
          /\ owed' = owed \union Owed(d)
    /\ UNCHANGED <<pc, faults, Events, pending, forwarded, received, taken, watchOther>>

\* Somebody creates a file below the root.
Touch ==
    /\ \E f \in NewFiles :
          /\ f \notin DOMAIN fs.files
          /\ Dir(f) \in fs.dirs
          /\ fs' = Copy(fs, f, "text").fs
          /\ watcher' = Notify(watcher, f)
          /\ owed' = owed \union Owed(f)
    /\ UNCHANGED <<pc, faults, Events, pending, forwarded, received, taken, watchOther>>

\* case e := <-r.watcher.Events: an ignored event is dropped, another one
\* is processed and is then to be sent.
Receive ==
    /\ pc = "select"
    /\ watcher.queue # <<>>
    /\ \E e \in {Head(watcher.queue)} :
       \E ok \in (IF AddIsCalled(fs, e) /\ faults < MaxFaults THEN BOOLEAN ELSE {TRUE}) :
       \E w \in {[watcher EXCEPT !.queue = Tail(@)]} :
          /\ taken' = Append(taken, e)
          /\ IF isIgnored(ignores, e.Name)
             THEN /\ watcher' = w
                  /\ UNCHANGED <<pc, pending, faults>>
             ELSE /\ watcher' = processEvent(w, fs, e, ok)
                  /\ pending' = e
                  /\ pc' = "send"
                  /\ faults' = faults + (IF ok THEN 0 ELSE 1)
    /\ UNCHANGED <<fs, Events, forwarded, owed, received, watchOther>>

\* r.Events <- e: blocks while the buffer is full.
Forward ==
    /\ pc = "send"
    /\ Len(Events) < EventsCap
    /\ Events' = Append(Events, pending)
    /\ forwarded' = IF pending.Op = "CREATE" /\ pending.Name \in fs.dirs
                    THEN forwarded \union {pending.Name} ELSE forwarded
    /\ pending' = NoEvent
    /\ pc' = "select"
    /\ UNCHANGED <<fs, faults, watcher, owed, received, taken, watchOther>>

\* The consumer reads an event from Events.
Consume ==
    /\ reading
    /\ Events # <<>>
    /\ received' = Append(received, Head(Events))
    /\ Events' = Tail(Events)
    /\ UNCHANGED <<pc, fs, faults, watcher, pending, forwarded, owed, taken, watchOther>>

\* case e := <-r.watcher.Errors: the error is handed to the consumer, who
\* reads Errors as well (the channel has no buffer).
ForwardError ==
    /\ pc = "select"
    /\ reading
    /\ err = NoError
    /\ err' = <<"watcher error">>
    /\ UNCHANGED <<pc, fs, faults, duplicateFiles, input, task, call, calls, firstPath,
                   creator, start, linkFailed, dryRun, watchVars, otherVars>>

\* The context is cancelled only when the command returns, so run never
\* takes its case ctx.Done here.
NextWatch == Mkdir \/ Touch \/ Receive \/ Forward \/ Consume \/ ForwardError

SpecWatch == InitWatch /\ [][NextWatch]_vars

\* The run loop and the consumer keep going.
SpecWatchFair ==
    SpecWatch /\ WF_vars(Receive) /\ WF_vars(Forward) /\ WF_vars(Consume)

(***************************************************************************)
(* extraction/exif.go                                                      *)
(***************************************************************************)

\* time.Time{}
ZeroTime == Date(1, 1, 1, 0, 0, 0, 0)

\* What the calls CaptureDate makes return for a file: os.Stat (an error or
\* the modification time), os.Open, exif.Decode and x.DateTime (an error or
\* the date of the EXIF data).
Times == {DateA, DateALater, DateB}
StatResults ==
    {[err |-> ErrNotExist, modTime |-> ZeroTime]}
        \union {[err |-> NoError, modTime |-> t] : t \in Times}
DateTimeResults ==
    {[err |-> <<"tag missing">>, tm |-> ZeroTime]}
        \union {[err |-> NoError, tm |-> t] : t \in Times}
FileResults ==
    [stat : StatResults,
     open : {NoError, ErrNotExist},
     decode : {NoError, <<"exif: failed to find exif intro marker">>},
     dateTime : DateTimeResults]

noInfoFoundError == "could neither read exif meta data nor file modification time"

\* The value CaptureDate returns when a step failed with error e.
NoExif(file, msg, e) ==
    IF file.stat.err = NoError
    THEN [ret |-> file.stat.modTime, err |-> NoError]
    ELSE [ret |-> ZeroTime, err |-> Wrap(msg, e)]

\* A CaptureDate that gives up when os.Stat fails.
CaptureDateNeedsStat(file) ==
    IF file.stat.err # NoError
    THEN [ret |-> ZeroTime, err |-> Wrap("failed to open or fstat file.", file.stat.err)]
    ELSE IF file.open # NoError
    THEN NoExif(file, "failed to open or fstat file.", file.open)
    ELSE IF file.decode # NoError
    THEN NoExif(file, noInfoFoundError, file.decode)
    ELSE IF file.dateTime.err # NoError
    THEN NoExif(file, noInfoFoundError, file.dateTime.err)
    ELSE [ret |-> file.dateTime.tm, err |-> NoError]

\* CaptureDate(fname)
CaptureDate(file) ==
    IF file.open # NoError
    THEN NoExif(file, "failed to open or fstat file.", file.open)
    ELSE IF file.decode # NoError
    THEN NoExif(file, noInfoFoundError, file.decode)
    ELSE IF file.dateTime.err # NoError
    THEN NoExif(file, noInfoFoundError, file.dateTime.err)
    ELSE [ret |-> file.dateTime.tm, err |-> NoError]

InitCaptureDate ==
    /\ pc = "start"
    /\ input \in FileResults
    /\ duplicateFiles = <<>>
    /\ task = EmptyTask
    /\ err = NoError
    /\ fs = EmptyFS
    /\ call = NoCall
    /\ calls = 0
    /\ firstPath = <<>>
    /\ faults = 0
    /\ creator = "os"
    /\ start = fs
    /\ linkFailed = {}
    /\ WatchIdle
    /\ OtherIdle
    /\ dryRun = FALSE

\* date, err := CaptureDate(fname)
CallCaptureDate ==
    /\ pc = "start"
    /\ \E r \in {CaptureDate(input)} :
          /\ call' = [fn |-> "CaptureDate", ret |-> r.ret, err |-> r.err]
          /\ err' = r.err
    /\ pc' = "returned"
    /\ calls' = calls + 1
    /\ UNCHANGED <<input, duplicateFiles, task, fs, firstPath, faults, creator, start,
                   linkFailed, dryRun, watchVars, otherVars>>

NextCaptureDate == CallCaptureDate

SpecCaptureDate == InitCaptureDate /\ [][NextCaptureDate]_vars

(***************************************************************************)
(* The paths DeDuplicate is run on                                         *)
(***************************************************************************)

CalA == JoinSlash(<<wArchive, w2019, w04, wAJpg>>)
CalB == JoinSlash(<<wArchive, w2019, w04, wBJpg>>)
AllA == JoinSlash(<<wArchive, wAll, wAJpg>>)
AllB == JoinSlash(<<wArchive, wAll, wBJpg>>)
OriginFooA == JoinSlash(<<wArchive, wOrigin, wFoo, wAJpg>>)
OriginFooB == JoinSlash(<<wArchive, wOrigin, wFoo, wBJpg>>)
OriginBarB == JoinSlash(<<wArchive, wOrigin, wBar, wBJpg>>)
\* "bar/baz.jpg": outside, sorts after the archive
OutsideBar == JoinSlash(<<wBar, <<"b", "a", "z", ".", "j", "p", "g">> >>)
\* "Archive-old/a.jpg": outside, sorts before every path of the archive
OutsideOld == JoinSlash(<<wArchive \o <<"-", "o", "l", "d">>, wAJpg>>)
\* "/tmp/a.jpg": absolute, while the archive root is relative
OutsideAbs == <<"/", "t", "m", "p", "/">> \o wAJpg
\* "Archive/x.jpg": a file directly under the root
UnderRoot == JoinSlash(<<wArchive, <<"x", ".", "j", "p", "g">> >>)
\* "Archive/..x": a file under the root whose name begins with two dots
DotDotName == JoinSlash(<<wArchive, <<".", ".", "x">> >>)
\* "Archive/2019/04/sub/a.jpg": nested deeper than YEAR/MONTH/file
Nested == JoinSlash(<<wArchive, w2019, w04, <<"s", "u", "b">>, wAJpg>>)
\* "Archive/201x/04/a.jpg": the year is not four digits
BadYear == JoinSlash(<<wArchive, <<"2", "0", "1", "x">>, w04, wAJpg>>)

Universe ==
    { CalA, CalB, AllA, AllB, OriginFooA, OriginFooB, OriginBarB,
      OutsideBar, OutsideOld, OutsideAbs, ArchiveRoot, UnderRoot, DotDotName,
      Nested, BadYear }

\* The longest duplicate group.
MaxGroupLen == 3

Groups == UNION {[1..n -> Universe] : n \in 0..MaxGroupLen}

(***************************************************************************)
(* DeDuplicate run on every group                                          *)
(***************************************************************************)

InitDeDuplicate ==
    /\ pc = "init"
    /\ input \in Groups
    /\ duplicateFiles = input
    /\ task = EmptyTask
    /\ err = NoError
    /\ fs = EmptyFS
    /\ call = NoCall
    /\ calls = 0
    /\ firstPath = <<>>
    /\ faults = 0
    /\ creator = "os"
    /\ start = fs
    /\ linkFailed = {}
    /\ WatchIdle
    /\ OtherIdle
    /\ dryRun = FALSE

\* task, err := DeDuplicate(archiveRoot, duplicateFiles)
CallDeDuplicate ==
    /\ pc = "init"
    /\ \E r \in {DeDuplicate(ArchiveRoot, duplicateFiles)} :
           /\ task' = r.task
           /\ err' = r.err
    /\ duplicateFiles' = SortStrings(duplicateFiles)
    /\ pc' = "DeDuplicate"
    /\ UNCHANGED <<input, fsVars>>

NextDeDuplicate == CallDeDuplicate

SpecDeDuplicate == InitDeDuplicate /\ [][NextDeDuplicate]_vars

(***************************************************************************)
(* dedup.go: DeduplicateAll, group by group                                *)
(***************************************************************************)

\* A delete loop that goes on to the next file when a file cannot be deleted.
RECURSIVE DeleteFilesGoOn(_, _, _, _, _)
DeleteFilesGoOn(fsys, rs, fault, files, i) ==
    IF i > Len(files) THEN rs
    ELSE With(EnsureAbsent(fsys, rs, fault, files[i], "DeduplicateAll"), LAMBDA r :
           IF i = Len(files) /\ r.err # NoError
           THEN [r EXCEPT !.err = Wrap("failed to delete file", r.err)]
           ELSE DeleteFilesGoOn(fsys, r, fault, files, i + 1))

\* for _, toDelete := range task.DeleteFiles { creator.EnsureAbsent(toDelete) }
RECURSIVE DeleteFilesFrom(_, _, _, _, _)
DeleteFilesFrom(fsys, rs, fault, files, i) ==
    IF i > Len(files) THEN rs
    ELSE With(EnsureAbsent(fsys, rs, fault, files[i], "DeduplicateAll"), LAMBDA r :
           IF r.err # NoError
           THEN [r EXCEPT !.err = Wrap("failed to delete file", r.err)]
           ELSE DeleteFilesFrom(fsys, r, fault, files, i + 1))

\* The body of the loop of DeduplicateAll for one group, t being what
\* DeDuplicate(archiveRoot, duplicateFiles) returned: [fs, log, err, task]
DeduplicateGroup(t, fsys, f, fault) ==
    IF t.err # NoError
    THEN [fs |-> f, log |-> <<>>, task |-> t.task,
          err |-> Wrap("failed to compute deduplicateTask", t.err)]
    ELSE With(CreateLinks(fsys, Begin(f), fault, t.task.ReCreateLinks, t.task.ToKeep),
              LAMBDA r1 :
      IF r1.err # NoError
      THEN [fs |-> r1.fs, log |-> r1.log, task |-> t.task,
            err |-> Wrap("failed to create links to", r1.err)]
      ELSE With(DeleteFilesFrom(fsys, r1, fault, t.task.DeleteFiles, 1), LAMBDA r2 :
             [fs |-> r2.fs, log |-> r2.log, task |-> t.task, err |-> r2.err]))

\* The paths of the duplicate groups of a run, the longest group and the
\* number of groups.
DupUniverse == {CalA, CalB, AllA, OriginFooB, OutsideBar}
MaxDupLen == 3
MaxGroups == 2

\* The groups of a run.  DeDuplicate sorts its group first, and the orders
\* of a group are gone through under SpecDeDuplicate, so a group is taken
\* here in one order per choice of paths, repeated paths included.
DupGroups ==
    {g \in UNION {[1..n -> DupUniverse] : n \in 0..MaxDupLen} :
        \A i \in 1..(Len(g) - 1) : g[i] = g[i + 1] \/ StrLess(g[i], g[i + 1])}

\* DeDuplicate(archiveRoot, duplicateFiles) for every group of a run.
DeDuplicated == [group \in DupGroups |-> DeDuplicate(ArchiveRoot, group)]

\* The directories of an archive after Init and a Sort from foo/.
ArchiveDirs ==
    {ArchiveRoot, Dir(CalA), Dir(Dir(CalA)), Dir(AllA), Dir(Dir(OriginFooB)),
     Dir(OriginFooB)}

\* Two pictures sorted into the archive, each with one of its index links.
LayoutLinked ==
    [files |-> (CalA :> 1) @@ (AllA :> 1) @@ (CalB :> 2) @@ (OriginFooB :> 2),
     dirs |-> ArchiveDirs,
     data |-> (1 :> "jpgA") @@ (2 :> "jpgB")]

\* The same where the index entry is a copy of its own and all/ is missing.
LayoutCopies ==
    [files |-> (CalA :> 1) @@ (CalB :> 2) @@ (OriginFooB :> 3),
     dirs |-> ArchiveDirs \ {Dir(AllA)},
     data |-> (1 :> "jpgA") @@ (2 :> "jpgB") @@ (3 :> "jpgB")]

InitDeduplicateAll ==
    /\ pc = "loop"
    /\ input = <<>>
    /\ duplicateFiles = <<>>
    /\ task = EmptyTask
    /\ err = NoError
    /\ fs \in {LayoutLinked, LayoutCopies}
    /\ call = NoCall
    /\ calls = 0
    /\ firstPath = <<>>
    /\ faults = 0
    /\ creator \in {"os", "logging"}
    /\ start = fs
    /\ linkFailed = {}
    /\ WatchIdle
    /\ OtherIdle
    /\ dryRun = FALSE

\* One pass of the loop: the task of the next group is computed and carried
\* out; an error ends DeduplicateAll.
DeduplicateNext ==
    /\ pc = "loop"
    /\ calls < MaxGroups
    /\ \E group \in DupGroups :
       \E fault \in IF creator = "os"
                    THEN Faults(DeduplicateGroup(DeDuplicated[group], creator, fs, NoFault).log)
                    ELSE {NoFault} :
       \E r \in {DeduplicateGroup(DeDuplicated[group], creator, fs, fault)} :
             /\ fs' = r.fs
             /\ err' = r.err
             /\ task' = r.task
             /\ duplicateFiles' = group
             /\ call' = [fn |-> "DeduplicateAll", group |-> group, task |-> r.task,
                         fault |-> fault, err |-> r.err, log |-> r.log, pre |-> fs]
             /\ faults' = faults + (IF fault.at > 0 THEN 1 ELSE 0)
             /\ pc' = IF r.err = NoError THEN "group" ELSE "failed"
    /\ calls' = calls + 1
    /\ UNCHANGED <<input, firstPath, creator, start, linkFailed, dryRun, watchVars, otherVars>>

\* The loop goes on to the next group: duplicateFiles, task and err of the
\* pass are gone.
NextGroup ==
    /\ pc = "group"
    /\ pc' = "loop"
    /\ call' = NoCall
    /\ duplicateFiles' = <<>>
    /\ task' = EmptyTask
    /\ UNCHANGED <<input, err, fs, calls, firstPath, faults, creator, start, linkFailed, dryRun, watchVars, otherVars>>

\* return nil: there is no group left.
ReturnNil ==
    /\ pc = "loop"
    /\ pc' = "returned"
    /\ UNCHANGED <<input, duplicateFiles, task, err, fs, call, calls, firstPath, faults,
                   creator, start, linkFailed, dryRun, watchVars, otherVars>>

NextDeduplicateAll == DeduplicateNext \/ NextGroup \/ ReturnNil

SpecDeduplicateAll == InitDeduplicateAll /\ [][NextDeduplicateAll]_vars

(***************************************************************************)
(* dedup.go: DeduplicateAll run on the same groups again                   *)
(***************************************************************************)

\* The fault of a call as the rest of the call sees it after done
\* filesystem calls.
Later(fault, done) ==
    [fault EXCEPT !.at = IF @ > done THEN @ - done ELSE 0]

\* DeduplicateAll(archiveRoot, duplicates, creator): [fs, log, err], the
\* archive root being ArchiveRoot.
RECURSIVE DeduplicateAllFrom(_, _, _, _, _)
DeduplicateAllFrom(duplicates, i, fsys, rs, fault) ==
    IF i > Len(duplicates) THEN rs
    ELSE With(DeduplicateGroup(DeDuplicated[duplicates[i]], fsys, rs.fs,
                               Later(fault, Len(rs.log))),
              LAMBDA r :
           With([fs |-> r.fs, log |-> rs.log \o r.log, err |-> r.err], LAMBDA next :
             IF r.err # NoError THEN next
             ELSE DeduplicateAllFrom(duplicates, i + 1, fsys, next, fault)))

DeduplicateAll(duplicates, fsys, f, fault) ==
    DeduplicateAllFrom(duplicates, 1, fsys, Begin(f), fault)

\* The lists of at most max groups of a run, and how often the dedup command
\* is run on a list.
DupLists(max) == UNION {[1..n -> DupGroups] : n \in 0..max}
MaxRuns == 2

InitRerun ==
    /\ pc = "start"
    /\ input \in DupLists(MaxGroups)
    /\ duplicateFiles = <<>>
    /\ task = EmptyTask
    /\ err = NoError
    /\ fs \in {LayoutLinked, LayoutCopies}
    /\ call = NoCall
    /\ calls = 0
    /\ firstPath = <<>>
    /\ faults = 0
    /\ creator = "os"
    /\ start = fs
    /\ linkFailed = {}
    /\ WatchIdle
    /\ OtherIdle
    /\ dryRun = FALSE

\* err = archive.DeduplicateAll(archiveRoot, duplicates, fs), the whole call;
\* the command is run again on the same input, whatever the call returned.
RunDeduplicateAll ==
    /\ pc \in {"start", "returned", "failed"}
    /\ calls < MaxRuns
    /\ \E fault \in Faults(DeduplicateAll(input, creator, fs, NoFault).log) :
       \E r \in {DeduplicateAll(input, creator, fs, fault)} :
             /\ fs' = r.fs
             /\ err' = r.err
             /\ call' = [fn |-> "DeduplicateAll", fault |-> fault, err |-> r.err,
                         log |-> r.log, pre |-> fs]
             /\ faults' = faults + (IF fault.at > 0 THEN 1 ELSE 0)
             /\ pc' = IF r.err = NoError THEN "returned" ELSE "failed"
    /\ calls' = calls + 1
    /\ UNCHANGED <<input, duplicateFiles, task, firstPath, creator, start, linkFailed, dryRun, watchVars, otherVars>>

NextRerun == RunDeduplicateAll

SpecRerun == InitRerun /\ [][NextRerun]_vars

(***************************************************************************)
(* What the claims about DeDuplicate speak of                              *)
(***************************************************************************)

Range(seq) == {seq[i] : i \in 1..Len(seq)}

\* p lies lexically within root: root's elements are the first elements of p.
LexicallyWithin(root, p) ==
    LET R == SplitSlash(root)
        E == SplitSlash(p)
    IN  Len(E) >= Len(R) /\ SubSeq(E, 1, Len(R)) = R

\* The elements of p below root.
ElementsBelow(root, p) ==
    LET E == SplitSlash(p) IN SubSeq(E, Len(SplitSlash(root)) + 1, Len(E))

IsDigits(w, n) == Len(w) = n /\ \A i \in 1..Len(w) : w[i] \in Digits

\* YEAR/MONTH/file below the root
CalendarStored(root, p) ==
    /\ LexicallyWithin(root, p)
    /\ LET E == ElementsBelow(root, p)
       IN  Len(E) = 3 /\ IsDigits(E[1], 4) /\ IsDigits(E[2], 2)

CalendarPaths == {p \in Range(input) : CalendarStored(ArchiveRoot, p)}

\* The smallest string of a non-empty set.
Smallest(S) == CHOOSE p \in S : \A q \in S : q = p \/ StrLess(p, q)

Returned == pc = "DeDuplicate"

(***************************************************************************)
(* C1                                                                      *)
(***************************************************************************)

Accepted == \A p \in Range(input) : LexicallyWithin(ArchiveRoot, p)

KeepsSmallestCalendar ==
    /\ err = NoError
    /\ task.ToKeep = Smallest(CalendarPaths)
    /\ \A p \in CalendarPaths \ {task.ToKeep} : p \in Range(task.DeleteFiles)

\* C1: a group with at least one calendar-stored path and no path outside
\* the archive root makes DeDuplicate succeed, with the smallest
\* calendar-stored path as ToKeep and every other calendar-stored path in
\* DeleteFiles.
C1_SmallestCalendarKept ==
    (Returned /\ CalendarPaths # {} /\ Accepted) => KeepsSmallestCalendar

\* The first element of p below the root begins with two dots.
BeginsWithDots(p) ==
    LET E == ElementsBelow(ArchiveRoot, p)
    IN  E # <<>> /\ HasPrefix(E[1], DotDot)

\* C1 away from the paths pathInArchive wrongly rejects: the same statement
\* for the groups none of whose paths begins, below the root, with "..".
C1_SmallestCalendarKeptNoDots ==
    (/\ Returned
     /\ CalendarPaths # {}
     /\ Accepted
     /\ \A p \in Range(input) : ~BeginsWithDots(p)) => KeepsSmallestCalendar

C1_Witness ==
    /\ Returned
    /\ input = <<CalB, AllA, CalA>>
    /\ task.ToKeep = CalA
    /\ task.DeleteFiles = <<CalB>>

(***************************************************************************)
(* C2                                                                      *)
(***************************************************************************)

\* C2: a group without a calendar-stored path makes DeDuplicate return an
\* error and the empty task, also when it holds all/ and origin/ copies: no
\* index copy becomes ToKeep.
C2_NoCalendarIsError ==
    (Returned /\ CalendarPaths = {}) => (err # NoError /\ task = EmptyTask)

C2_Witness ==
    /\ Returned
    /\ input = <<OriginFooA, AllA>>
    /\ err = <<"there is no file in calendar directory">>
    /\ task = EmptyTask

(***************************************************************************)
(* C3                                                                      *)
(***************************************************************************)

\* C3: a group with a path outside the archive root makes DeDuplicate
\* return the containment error and the empty task, wherever the path falls
\* in the sorted order.
C3_OutsideIsError ==
    (Returned /\ ~Accepted) =>
        /\ err # NoError
        /\ Head(err) = "failed to find path in directory"
        /\ task = EmptyTask

\* The outside path is the last of the sorted group: the loop has classified
\* a calendar file and a link before it reaches it.
C3_Witness ==
    /\ Returned
    /\ input = <<OutsideBar, CalA, AllA>>
    /\ duplicateFiles = <<CalA, AllA, OutsideBar>>
    /\ err = <<"failed to find path in directory", "path is outside of archive">>
    /\ task = EmptyTask

(***************************************************************************)
(* C4                                                                      *)
(***************************************************************************)

NonCalendarPaths == Range(input) \ CalendarPaths

\* Per directory: the smallest path of the directory is the one path of it
\* in ReCreateLinks, the others are in DeleteFiles; and ReCreateLinks holds
\* no two paths of one directory.  dirOf gives a path's directory.
OnePerDirectory(dirOf(_)) ==
    /\ \A p \in NonCalendarPaths :
         LET inDir == {q \in NonCalendarPaths : dirOf(q) = dirOf(p)}
         IN  /\ Range(task.ReCreateLinks) \cap inDir = {Smallest(inDir)}
             /\ inDir \ {Smallest(inDir)} \subseteq Range(task.DeleteFiles)
    /\ \A i, j \in 1..Len(task.ReCreateLinks) :
         dirOf(task.ReCreateLinks[i]) = dirOf(task.ReCreateLinks[j]) => i = j

\* The directory that contains p.
ContainingDirectory(p) == Dir(p)

\* The directory of p's archive-relative path; the root's own relative path
\* is ".", whose directory is "." as for a file directly under the root.
RelativeDirectory(p) ==
    IF p = ArchiveRoot THEN Dot
    ELSE Dir(JoinSlash(ElementsBelow(ArchiveRoot, p)))

\* C4 as stated: in a successful result every containing directory of the
\* group's non-calendar paths has exactly its smallest path in
\* ReCreateLinks and its other paths in DeleteFiles.
C4_OnePerContainingDirectory ==
    (Returned /\ err = NoError) => OnePerDirectory(ContainingDirectory)

\* C4 as amended: the same, the non-calendar paths grouped by the directory
\* of their archive-relative path, which puts the archive root itself into
\* one group with the files directly under the root.
C4_OnePerRelativeDirectory ==
    (Returned /\ err = NoError) => OnePerDirectory(RelativeDirectory)

C4_Witness ==
    /\ Returned
    /\ input = <<OriginFooB, CalA, OriginFooA>>
    /\ err = NoError
    /\ task.ReCreateLinks = <<OriginFooA>>
    /\ task.DeleteFiles = <<OriginFooB>>

(***************************************************************************)
(* Claims about Sort                                                       *)
(***************************************************************************)

\* The last step was a call of Sort / one that returned a nil error.
SortReturned == call.fn = "Sort"
SortSucceeded == SortReturned /\ call.err = NoError

\* The files of the archive that share the inode of the file at path p.
LinksOf(f, p) == {q \in DOMAIN f.files : f.files[q] = f.files[p]}

\* Where the index links of a source sorted to path canon belong: under
\* all/, and under origin/ in the directory the source has below the source
\* root.
AllLinkOf(canon) == JoinSlash(<<ArchiveRoot, wAll, Base(canon)>>)
OriginLinkOf(name, canon) ==
    LET parts == SplitSlash(name)
    IN  JoinSlash(<<ArchiveRoot, wOrigin>>
                  \o SubSeq(parts, 2, Len(parts) - 1)
                  \o <<Base(canon)>>)

\* Sort has run on a source it had sorted before, the oracles answered and
\* no I/O fault has struck so far.
SortedAgain ==
    SortReturned /\ call.again /\ call.oracle = "ok" /\ faults = 0

\* C5: Sort is idempotent.  Without I/O faults, Sort of a source that was
\* sorted before succeeds, returns the canonical path it returned the first
\* time and leaves the paths of the archive as they were; and as long as only
\* one source has been sorted, the archive holds one canonical file, its
\* all/ link and its origin/ link, and nothing else.
C5_SortIsIdempotent ==
    /\ SortedAgain =>
          /\ call.err = NoError
          /\ call.ret = firstPath[call.src]
          /\ DOMAIN fs.files = DOMAIN call.pre.files
          /\ fs.dirs = call.pre.dirs
    /\ (SortSucceeded /\ faults = 0 /\ DOMAIN firstPath = {call.src}) =>
          /\ DOMAIN fs.files =
                {call.ret, AllLinkOf(call.ret), OriginLinkOf(call.src, call.ret)}
          /\ LinksOf(fs, call.ret) = DOMAIN fs.files
          /\ fs.data[fs.files[call.ret]] = ContentOf(call.src)

\* The same source sorted twice, and nothing else, without a fault.
C5_Witness ==
    /\ SortedAgain
    /\ calls >= 2
    /\ DOMAIN firstPath = {call.src}
    /\ Cardinality(DOMAIN fs.files) = 3

\* Sort gave up before it touched the filesystem: the media check failed,
\* the file is no media file, or the capture date could not be extracted.
SortSkipped ==
    /\ SortReturned
    /\ \/ call.oracle \in {"mediaErr", "dateErr"}
       \/ ~SourceOf(call.src).media

\* C6: when the media check fails, the file is not a media file or the
\* capture date cannot be extracted, Sort changes nothing in the filesystem
\* and returns an empty path and an error; for a file that is no media file
\* the error is the sentinel "given file is not a media file" itself.
C6_SkipChangesNothing ==
    SortSkipped =>
        /\ fs = call.pre
        /\ call.log = <<>>
        /\ call.ret = <<>>
        /\ call.err # NoError
        /\ (call.oracle # "mediaErr" /\ ~SourceOf(call.src).media)
              => call.err = ErrNotMedia

\* A text file is handed to Sort of an archive that already holds files.
C6_Witness ==
    /\ SortSkipped
    /\ call.src = SrcTxt
    /\ call.oracle = "ok"
    /\ call.err = ErrNotMedia
    /\ DOMAIN fs.files # {}

\* The files below the index directories all/ and origin/, and those in the
\* calendar tree.
IndexEntries(f) ==
    {p \in DOMAIN f.files :
        \/ HasPrefix(p, JoinSlash(<<ArchiveRoot, wAll, <<>> >>))
        \/ HasPrefix(p, JoinSlash(<<ArchiveRoot, wOrigin, <<>> >>))}
CanonicalFiles(f) == {p \in DOMAIN f.files : CalendarStored(ArchiveRoot, p)}

\* Without an I/O fault every call of Sort on a media file whose capture
\* date is known succeeds, so the states without a fault are those reached
\* by successful calls (a skipped call changes nothing).
FaultFreeSortSucceeds ==
    (SortReturned /\ ~SortSkipped /\ faults = 0) => call.err = NoError

\* C7: after successful calls of Sort every entry under all/ and origin/
\* shares the inode of the canonical file of its name in the calendar tree.
C7_IndexEntriesAreHardLinks ==
    (SortSucceeded /\ faults = 0) =>
        \A p \in IndexEntries(fs) :
            \E q \in CanonicalFiles(fs) :
                Base(q) = Base(p) /\ fs.files[q] = fs.files[p]

\* C8: after a successful Sort the canonical file has its entry under all/
\* and its entry under origin/<directory of the source>/, each under the
\* canonical file name and each the only entry of the file in its
\* directory; what was at a link path before has been replaced.
C8_OneLinkPerIndex ==
    SortSucceeded =>
        LET canon == call.ret
            links == {AllLinkOf(canon), OriginLinkOf(call.src, canon)}
        IN  /\ canon \in DOMAIN fs.files
            /\ \A l \in links :
                  /\ l \in DOMAIN fs.files
                  /\ fs.files[l] = fs.files[canon]
                  /\ {q \in LinksOf(fs, canon) : Dir(q) = Dir(l)} = {l}

\* Sort succeeded where both link paths held a file of other content.
C8_Witness ==
    /\ SortSucceeded
    /\ \A l \in {AllLinkOf(call.ret), OriginLinkOf(call.src, call.ret)} :
          /\ l \in DOMAIN call.pre.files
          /\ call.pre.data[call.pre.files[l]] # ContentOf(call.src)
          /\ fs.data[fs.files[l]] = ContentOf(call.src)

\* The number a string of decimal digits stands for, and the byte two
\* hexadecimal digits stand for.
DigitValue(c) == CHOOSE d \in 0..15 : HexDigits[d + 1] = c
RECURSIVE DecValue(_)
DecValue(w) ==
    IF w = <<>> THEN 0
    ELSE 10 * DecValue(SubSeq(w, 1, Len(w) - 1)) + DigitValue(w[Len(w)])
HexByte(w) == 16 * DigitValue(w[1]) + DigitValue(w[2])
IsHex(w) == \A i \in 1..Len(w) : \E d \in 1..16 : HexDigits[d] = w[i]

\* e is the extension of the path p: what the last element of p ends with
\* from its last dot on, empty when it has no dot.
IsExtensionOf(e, p) ==
    /\ Len(e) <= Len(Base(p))
    /\ e = SubSeq(p, Len(p) - Len(e) + 1, Len(p))
    /\ IF e = <<>> THEN \A i \in 1..Len(Base(p)) : Base(p)[i] # "."
       ELSE e[1] = "." /\ \A i \in 2..Len(e) : e[i] # "."

\* name is <YYYYMMDD_HHMMSS>_<8 hex characters><extension> for the capture
\* date t, the digest sum and the source path.
IsCanonicalName(name, t, sum, source) ==
    /\ Len(name) >= 24
    /\ IsDigits(SubSeq(name, 1, 8), 8)
    /\ DecValue(SubSeq(name, 1, 4)) = t.year
    /\ DecValue(SubSeq(name, 5, 6)) = t.month
    /\ DecValue(SubSeq(name, 7, 8)) = t.day
    /\ name[9] = "_"
    /\ IsDigits(SubSeq(name, 10, 15), 6)
    /\ DecValue(SubSeq(name, 10, 11)) = t.hour
    /\ DecValue(SubSeq(name, 12, 13)) = t.minute
    /\ DecValue(SubSeq(name, 14, 15)) = t.second
    /\ name[16] = "_"
    /\ IsHex(SubSeq(name, 17, 24))
    /\ \A i \in 1..4 : HexByte(SubSeq(name, 15 + 2 * i, 16 + 2 * i)) = sum[i]
    /\ IsExtensionOf(SubSeq(name, 25, Len(name)), source)

\* path is archiveRoot/<year>/<two-digit month>/<canonical name>.
IsCanonicalPath(path, t, sum, source) ==
    LET parts == SplitSlash(path)
    IN  /\ Len(parts) = 4
        /\ parts[1] = ArchiveRoot
        /\ IsDigits(parts[2], Len(parts[2]))
        /\ DecValue(parts[2]) = t.year
        /\ IsDigits(parts[3], 2)
        /\ DecValue(parts[3]) = t.month
        /\ IsCanonicalName(parts[4], t, sum, source)

\* Two sources agree on the capture time to the second, on the first four
\* bytes of the digest (its first 8 hex characters) and on the extension.
SameKey(s1, s2) ==
    LET a == SourceOf(s1)
        b == SourceOf(s2)
    IN  /\ [a.date EXCEPT !.nsec = 0] = [b.date EXCEPT !.nsec = 0]
        /\ SubSeq(Sum224[a.content], 1, 4) = SubSeq(Sum224[b.content], 1, 4)
        /\ \E e \in {SubSeq(s1, i, Len(s1)) : i \in 1..(Len(s1) + 1)} :
              IsExtensionOf(e, s1) /\ IsExtensionOf(e, s2)

\* C9: the path a successful Sort returns is
\* archiveRoot/<year>/<two-digit month>/<YYYYMMDD_HHMMSS>_<first 8 hex
\* characters of the digest><extension of the source>, and two sources get
\* the same path exactly when they agree on the time to the second, on the
\* digest prefix and on the extension.
C9_CanonicalPath ==
    /\ SortSucceeded =>
          LET src == SourceOf(call.src)
          IN  IsCanonicalPath(call.ret, src.date, Sum224[src.content], src.name)
    /\ \A s1, s2 \in DOMAIN firstPath :
          (firstPath[s1] = firstPath[s2]) <=> SameKey(s1, s2)

\* Three sources sorted: two with the same key (other bytes, another
\* nanosecond, another base name) and one with another extension only.
C9_Witness ==
    /\ SortSucceeded
    /\ DOMAIN firstPath = {SrcXP, SrcXS, SrcR}
    /\ firstPath[SrcXP] = firstPath[SrcXS]
    /\ firstPath[SrcXP] # firstPath[SrcR]

(***************************************************************************)
(* Claims about DeduplicateAll                                             *)
(***************************************************************************)

\* DeduplicateAll has carried out the task of a group on the real
\* filesystem: no I/O fault struck and no step failed.
GroupCarriedOut ==
    /\ call.fn = "DeduplicateAll"
    /\ creator = "os"
    /\ faults = 0
    /\ call.err = NoError

\* What holds of the filesystem and of the log of the calls once the task
\* of a group has been carried out.
TaskCarriedOut ==
    /\ \A p \in Range(call.task.ReCreateLinks) :
          /\ p \in DOMAIN fs.files
          /\ call.task.ToKeep \in DOMAIN fs.files
          /\ fs.files[p] = fs.files[call.task.ToKeep]
    /\ \A p \in Range(call.task.DeleteFiles) : p \notin DOMAIN fs.files
    /\ call.task.ToKeep \in DOMAIN fs.files
    /\ \A i \in 1..Len(call.log) :
          call.log[i].op = "link" =>
              \E j \in 1..(i - 1) :
                  call.log[j].op = "remove" /\ call.log[j].path = call.log[i].path
    /\ \A i, j \in 1..Len(call.log) :
          (call.log[i].by = "CreateLinks" /\ call.log[j].by = "DeduplicateAll")
              => i < j

\* C10: when DeduplicateAll has processed a group without an I/O fault on
\* the real filesystem, every path of ReCreateLinks is a hard link to
\* ToKeep (what was at the path was unlinked first), every path of
\* DeleteFiles is absent, ToKeep is present, and every link was recreated
\* before the first file was deleted.
C10_GroupCarriedOut == GroupCarriedOut => TaskCarriedOut

\* No path occurs twice in the group.
NoRepeatedPath ==
    \A i, j \in 1..Len(call.group) : call.group[i] = call.group[j] => i = j

\* The same for the groups in which no path occurs twice and whose ToKeep
\* was there when the group was taken up.
C10_GroupCarriedOutNoRepeats ==
    (GroupCarriedOut /\ NoRepeatedPath
        /\ call.task.ToKeep \in DOMAIN call.pre.files) => TaskCarriedOut

\* A group with a link to recreate over a copy and a file to delete.
C10_Witness ==
    /\ GroupCarriedOut
    /\ NoRepeatedPath
    /\ call.task.ReCreateLinks = <<OriginFooB>>
    /\ call.task.DeleteFiles = <<CalB>>
    /\ call.pre.files[OriginFooB] # call.pre.files[CalA]

\* The calls of a log made again one by one on the filesystem f, the at-th
\* of them struck by the fault: the filesystem before the first call that
\* fails (after the last call when none fails) and the index of that call
\* (0 when none fails).  A remove of what is not there does not count.
RECURSIVE Replay(_, _, _, _)
Replay(f, log, i, at) ==
    IF i > Len(log) THEN [fs |-> f, failedAt |-> 0]
    ELSE IF i = at THEN [fs |-> f, failedAt |-> i]
    ELSE With(Exec("os", f, log[i]), LAMBDA r :
           IF r.err # NoError /\ ~(log[i].op = "remove" /\ IsNotExist(r.err))
           THEN [fs |-> f, failedAt |-> i]
           ELSE Replay(r.fs, log, i + 1, at))

\* The pass of DeduplicateAll over a group has just ended.
GroupDone == call.fn = "DeduplicateAll"

\* C11: DeduplicateAll aborts on the first failure.  It returns an error
\* exactly when computing the task or one of its filesystem calls failed;
\* the failed call is the last one it made; what the calls before it did
\* stays done; and once it has returned the error it makes no step more, for
\* this group or a later one.
C11_FirstFailureState ==
    GroupDone =>
        /\ (pc = "failed") = (call.err # NoError)
        /\ err = call.err
        /\ DeDuplicated[call.group].err # NoError =>
              call.err # NoError /\ call.log = <<>> /\ fs = call.pre
        /\ (creator = "logging" /\ DeDuplicated[call.group].err = NoError) =>
              call.err = NoError
        /\ (creator = "os" /\ DeDuplicated[call.group].err = NoError) =>
              LET r == Replay(call.pre, call.log, 1, call.fault.at)
              IN  /\ fs = r.fs
                  /\ (call.err # NoError) = (r.failedAt # 0)
                  /\ call.err # NoError => r.failedAt = Len(call.log)

C11_AbortsOnFirstFailure ==
    [](C11_FirstFailureState) /\ [][pc # "failed"]_vars

\* A file could not be deleted after the links of the group, and files of
\* another group before it, had been dealt with.
C11_Witness ==
    /\ GroupDone
    /\ creator = "os"
    /\ calls = 2
    /\ pc = "failed"
    /\ Len(call.log) >= 4
    /\ call.log[Len(call.log)].by = "DeduplicateAll"
    /\ fs # call.pre

\* The group has no calendar-stored member, or a path outside the archive
\* root: DeDuplicate returns an error for it.
InvariantViolated ==
    /\ GroupDone
    /\ \/ \E p \in Range(call.group) : ~LexicallyWithin(ArchiveRoot, p)
       \/ \A p \in Range(call.group) : ~CalendarStored(ArchiveRoot, p)

\* C12 as stated: when DeduplicateAll fails on a group that violates an
\* archive invariant, the call has changed nothing in the filesystem.
C12_NothingChangedByTheCall ==
    InvariantViolated => (call.err # NoError /\ fs = start)

\* C12 for the group: DeduplicateAll fails on a group that violates an
\* archive invariant before it makes a filesystem call for that group; what
\* it did for the groups before stays done.
C12_NothingChangedForTheGroup ==
    InvariantViolated =>
        /\ call.err # NoError
        /\ pc = "failed"
        /\ call.log = <<>>
        /\ fs = call.pre

\* The second group has a path outside the root beside a file to keep and
\* a link to recreate; the first group has been carried out on the disk.
C12_Witness ==
    /\ InvariantViolated
    /\ creator = "os"
    /\ calls = 2
    /\ fs # start
    /\ call.group = <<CalA, AllA, OutsideBar>>

\* The filesystem calls a task asks for: for every link a remove, the
\* directory of the link and the link to ToKeep, then a remove per file to
\* delete.
RECURSIVE PlannedLinks(_, _)
PlannedLinks(links, target) ==
    IF links = <<>> THEN <<>>
    ELSE << [op |-> "remove", path |-> Head(links), target |-> <<>>, by |-> "CreateLinks"],
            [op |-> "mkdir", path |-> Dir(Head(links)), target |-> <<>>, by |-> "CreateLinks"],
            [op |-> "link", path |-> Head(links), target |-> target, by |-> "CreateLinks"] >>
         \o PlannedLinks(Tail(links), target)
PlannedDeletes(files) ==
    [i \in 1..Len(files) |->
        [op |-> "remove", path |-> files[i], target |-> <<>>, by |-> "DeduplicateAll"]]
PlannedOps(t) == PlannedLinks(t.ReCreateLinks, t.ToKeep) \o PlannedDeletes(t.DeleteFiles)

\* What the logging variant does for a group: nothing reaches the disk, an
\* invalid group fails, and for a valid one every call the task asks for is
\* recorded.
LoggingRecordsThePlan ==
    (GroupDone /\ creator = "logging") =>
        /\ fs = start
        /\ (call.err # NoError) = InvariantViolated
        /\ call.log = IF InvariantViolated THEN <<>> ELSE PlannedOps(call.task)

SameLinks(f, g) ==
    /\ DOMAIN f.files = DOMAIN g.files
    /\ f.dirs = g.dirs
    /\ \A p, q \in DOMAIN f.files :
          (f.files[p] = f.files[q]) = (g.files[p] = g.files[q])

\* One run on the groups from the start, without a fault.
Uninterrupted == DeduplicateAll(input, "os", start, NoFault)

\* DeduplicateAll was run a second time, without a new fault, on groups an
\* uninterrupted run gets through.
RanAgain ==
    /\ call.fn = "DeduplicateAll"
    /\ calls = 2
    /\ call.fault = NoFault
    /\ Uninterrupted.err = NoError

\* C14: run again on the same groups without a new I/O fault, after a
\* successful run or one that aborted at any step, DeduplicateAll succeeds
\* and ends with the paths and link relations of one uninterrupted run.
C14_RerunIsSafe ==
    RanAgain => (call.err = NoError /\ SameLinks(fs, Uninterrupted.fs))

\* No path occurs twice in the groups of the run, in one group or in two.
NoSharedPath ==
    \A i, j \in 1..Len(input) :
        \A k \in 1..Len(input[i]), l \in 1..Len(input[j]) :
            input[i][k] = input[j][l] => (i = j /\ k = l)

\* The same for lists of groups in which no path occurs twice.
C14_RerunIsSafeNoSharedPath ==
    (RanAgain /\ NoSharedPath) => (call.err = NoError /\ SameLinks(fs, Uninterrupted.fs))

(***************************************************************************)
(* Claims about the failures of Sort                                       *)
(***************************************************************************)

\* Sort gave up while it removed, made the directory of, or linked an index
\* link.
LinkStepFailed == SortReturned /\ FailedAtLinks(call)

\* The path Sort returned is the canonical path of the source it was given.
ReturnedCanonicalPath ==
    LET src == SourceOf(call.src)
    IN  IsCanonicalPath(call.ret, src.date, Sum224[src.content], src.name)

\* Sort has run without a fault on a source whose index links an earlier
\* Sort failed to create.
SortedAfterLinkFailure ==
    SortReturned /\ call.relink /\ call.fault = NoFault /\ call.oracle = "ok"

\* C15: when a step of CreateLinks fails, Sort returns the canonical path
\* and a wrapped error, and the canonical file is in place with the content
\* of the source; a later Sort of the same source that meets no fault
\* succeeds and leaves both index links on the canonical file.
C15_LinkFailureIsRecoverable ==
    /\ LinkStepFailed =>
          /\ ReturnedCanonicalPath
          /\ Len(call.err) >= 2
          /\ call.ret \in DOMAIN fs.files
          /\ fs.data[fs.files[call.ret]] = ContentOf(call.src)
    /\ SortedAfterLinkFailure =>
          /\ call.err = NoError
          /\ ReturnedCanonicalPath
          /\ \A l \in {AllLinkOf(call.ret), OriginLinkOf(call.src, call.ret)} :
                /\ l \in DOMAIN fs.files
                /\ fs.files[l] = fs.files[call.ret]

\* A Sort that found the canonical file of its source without one of its
\* index links, left so by a failed Sort of the same source, has run.
C15_Witness ==
    /\ SortedAfterLinkFailure
    /\ call.err = NoError
    /\ call.ret \in DOMAIN call.pre.files
    /\ \E l \in {AllLinkOf(call.ret), OriginLinkOf(call.src, call.ret)} :
          l \notin DOMAIN call.pre.files

\* The copy into the temporary file failed in the last call of Sort.
CopyStepFailed ==
    /\ SortReturned
    /\ call.fault.at \in 1..Len(call.log)
    /\ call.log[call.fault.at].op = "copy"

\* path is archiveRoot/<year>/<two-digit month>/exifsorter.tmp for time t.
IsTmpPath(path, t) ==
    LET parts == SplitSlash(path)
    IN  /\ Len(parts) = 4
        /\ parts[1] = ArchiveRoot
        /\ IsDigits(parts[2], Len(parts[2]))
        /\ DecValue(parts[2]) = t.year
        /\ IsDigits(parts[3], 2)
        /\ DecValue(parts[3]) = t.month
        /\ parts[4] = wTmp

\* The files of f other than the one at path p: their inodes and content.
FilesBut(f, p) ==
    [q \in DOMAIN f.files \ {p} |-> <<f.files[q], f.data[f.files[q]]>>]

\* C16: when the copy fails, Sort returns the path of the temporary file
\* and a wrapped error; it calls neither remove nor rename nor link; the
\* temporary file is still there if it was there before or the copy had
\* begun to write it; and every other file of the archive is what it was.
C16_CopyFailureLeavesTmp ==
    CopyStepFailed =>
        /\ IsTmpPath(call.ret, SourceOf(call.src).date)
        /\ Len(call.err) >= 2
        /\ \A i \in 1..Len(call.log) : call.log[i].op \notin {"remove", "rename", "link"}
        /\ (call.ret \in DOMAIN call.pre.files \/ call.fault.partial)
              => call.ret \in DOMAIN fs.files
        /\ FilesBut(fs, call.ret) = FilesBut(call.pre, call.ret)

\* The copy broke off after it had written part of the temporary file, in
\* an archive that holds sorted files.
C16_Witness ==
    /\ CopyStepFailed
    /\ call.fault.partial
    /\ call.ret \notin DOMAIN call.pre.files
    /\ call.ret \in DOMAIN fs.files
    /\ fs.data[fs.files[call.ret]] = PartialContent
    /\ CanonicalFiles(call.pre) # {}
    /\ IndexEntries(call.pre) # {}

(***************************************************************************)
(* Claims about the run of the sort command                                *)
(***************************************************************************)

\* What holds in every state of the batch run: the file Sort was last
\* called on is the file of the walk whose turn it was, a line naming it has
\* been printed ("Can't sort file" with the error for an error other than
\* the sentinel), the watch loop starts only after every file had its call,
\* and the program ends only where Init failed.
C17_BatchState ==
    /\ (pc = "batch" /\ SortReturned) =>
          /\ calls \in 1..Len(input)
          /\ call.src = input[calls]
          /\ call.printed.file = call.src
          /\ (call.err # NoError /\ call.err # ErrNotMedia) =>
                (call.printed.text = "Can't sort file" /\ call.printed.what = call.err)
    /\ pc = "watch" => calls >= Len(input)
    /\ pc = "exit" => (call.fn = "Init" /\ call.err # NoError)

\* What holds of every step of the batch run: it is the call of Sort on the
\* next file of the walk, and the batch goes on after it.
C17_BatchStep ==
    (pc = "batch" /\ calls < Len(input)) =>
        /\ pc' = "batch"
        /\ calls' = calls + 1
        /\ call'.fn = "Sort"
        /\ call'.src = input[calls']

\* C17: in the batch run Sort is called once on every file of the initial
\* walk, in the order of the walk, and a line is printed for it; an error of
\* Sort, the sentinel or another, never ends the batch.
C17_BatchSortsEveryFile == [](C17_BatchState) /\ [][C17_BatchStep]_vars

\* The last file of a walk of MaxFiles files has been sorted after the Sort
\* of an earlier file failed with an I/O fault.
C17_Witness ==
    /\ pc = "batch"
    /\ Len(input) = MaxFiles
    /\ calls = Len(input)
    /\ SortSucceeded
    /\ call.fault = NoFault
    /\ faults = 1

\* C18: with the dry-run flag set the command leaves the target archive as
\* it was when the program started.
C18_DryRunEditsNothing == dryRun => fs = start

(***************************************************************************)
(* Claims about the recursive watcher                                      *)
(***************************************************************************)

\* The event for the creation of name is in the watcher's queue, held by
\* run, in the buffer of Events, or with the consumer.
Underway(name) ==
    LET e == [Op |-> "CREATE", Name |-> name]
    IN  \/ \E i \in 1..Len(watcher.queue) : watcher.queue[i] = e
        \/ pending = e
        \/ \E i \in 1..Len(Events) : Events[i] = e
        \/ \E i \in 1..Len(received) : received[i] = e

Received(name) ==
    \E i \in 1..Len(received) : received[i] = [Op |-> "CREATE", Name |-> name]

\* C19: a directory whose Create event has been sent on Events is in the
\* watch set, and the creation of every file below it that is not ignored
\* and was created after the event was sent has an event on its way to the
\* consumer.
C19_FollowsNewDirectories ==
    /\ \A d \in forwarded : d \in watcher.dirs
    /\ \A o \in owed : Underway(o.name)

\* The same for the files created in the directory itself, in the runs in
\* which every call of watcher.Add succeeded.
C19_FollowsWhereAddSucceeds ==
    faults = 0 =>
        /\ \A d \in forwarded : d \in watcher.dirs
        /\ \A o \in owed : o.direct => Underway(o.name)

\* With a run loop and a consumer that keep going, each of these events
\* reaches the consumer.
C19_OwedEventsAreReceived ==
    \A f \in NewDirs \union NewFiles :
        ([name |-> f, direct |-> TRUE] \in owed /\ faults = 0) ~> (Received(f) \/ faults > 0)

\* After the Create events of both directories were sent, a file has been
\* created in each of them, and its event has reached the consumer.
C19_FollowedBothDirectories ==
    /\ faults = 0
    /\ forwarded = NewDirs
    /\ \E f, g \in owed :
          /\ f.direct /\ Dir(f.name) = WatchFoo /\ Received(f.name)
          /\ g.direct /\ Dir(g.name) = WatchFooBar /\ Received(g.name)

\* No call of watcher.Add has failed, and a file below a directory whose
\* Create event was sent has no event.
C19_MissedInNestedDirectory ==
    /\ faults = 0
    /\ \E o \in owed : ~Underway(o.name)

(***************************************************************************)
(* Claims about CaptureDate                                                *)
(***************************************************************************)

CaptureDateReturned == call.fn = "CaptureDate"

\* The file can be opened and decoded and its EXIF data hold a date.
HasExifDate(file) ==
    file.open = NoError /\ file.decode = NoError /\ file.dateTime.err = NoError

Swap12(s) == IF Len(s) < 2 THEN s ELSE <<s[2], s[1]>> \o SubSeq(s, 3, Len(s))
Rotate(s) == IF s = <<>> THEN s ELSE Tail(s) \o <<Head(s)>>

IsSorted(s) == \A i \in 1..(Len(s) - 1) : s[i] = s[i + 1] \/ StrLess(s[i], s[i + 1])

\* C21: DeDuplicate returns for the group with its first two paths
\* exchanged, and for the group with its first path moved to the end, what
\* it returned for the group (so it returns the same for every permutation),
\* and ReCreateLinks and DeleteFiles are in lexical order.
C21_OrderIndependent ==
    Returned =>
        /\ DeDuplicate(ArchiveRoot, Swap12(input)) = [task |-> task, err |-> err]
        /\ DeDuplicate(ArchiveRoot, Rotate(input)) = [task |-> task, err |-> err]
        /\ IsSorted(task.ReCreateLinks)
        /\ IsSorted(task.DeleteFiles)

\* A group given in descending order, with two calendar-stored paths.
C21_Witness ==
    /\ Returned
    /\ input = <<CalB, CalA, AllB>>
    /\ task = [ToKeep |-> CalA, ReCreateLinks |-> <<AllB>>, DeleteFiles |-> <<CalB>>]

\* C22: a path the archive holds is classified as calendar-stored exactly
\* when it has three elements below the root, the first of four digits and
\* the second of two; and in a task DeDuplicate returns, ToKeep is such a
\* path, no such path is in ReCreateLinks, and every other path of the group
\* (under all/ or origin/, nested deeper, directly under the root, the root
\* itself) is in ReCreateLinks or DeleteFiles.
C22_CalendarClassification ==
    Returned =>
        /\ \A p \in Range(input) :
              pathInArchive(ArchiveRoot, p).err = NoError =>
                 (isCalendarStoredFile(pathInArchive(ArchiveRoot, p).rel)
                     <=> CalendarStored(ArchiveRoot, p))
        /\ err = NoError =>
              /\ CalendarStored(ArchiveRoot, task.ToKeep)
              /\ \A p \in Range(task.ReCreateLinks) : ~CalendarStored(ArchiveRoot, p)
              /\ \A p \in Range(input) \ CalendarPaths :
                    /\ p # task.ToKeep
                    /\ p \in Range(task.ReCreateLinks) \union Range(task.DeleteFiles)

\* The root itself, a path nested below YEAR/MONTH and a path whose year is
\* no number, in groups with a calendar-stored path.
C22_Witness ==
    /\ Returned
    /\ err = NoError
    /\ task.ToKeep = CalA
    /\ Range(input) \in {{CalA, ArchiveRoot, Nested}, {CalA, BadYear, AllA},
                          {CalA, OriginFooA, UnderRoot}}
    /\ Range(task.ReCreateLinks) = Range(input) \ {CalA}

\* name matches one of the ignore patterns.
MatchesIgnorePattern(name) == \E i \in 1..Len(ignores) : HasSuffix(name, ignores[i])

\* The events of a sequence whose name matches no ignore pattern.
RECURSIVE NotIgnored(_)
NotIgnored(events) ==
    IF events = <<>> THEN <<>>
    ELSE (IF MatchesIgnorePattern(Head(events).Name) THEN <<>> ELSE <<Head(events)>>)
             \o NotIgnored(Tail(events))

\* The events run has passed on: read by the consumer, in the buffer of
\* Events, or about to be sent.
PassedOn == received \o Events \o (IF pending = NoEvent THEN <<>> ELSE <<pending>>)

\* C23: the events passed on are, in arrival order and each once, the
\* events run has received whose name matches no ignore pattern; and no
\* directory whose name matches an ignore pattern is in the watch set.
C23_DeliversTheUnignoredEvents ==
    /\ PassedOn = NotIgnored(taken)
    /\ \A d \in watcher.dirs : ~MatchesIgnorePattern(d)

\* The events of an ignored directory and of an ignored file were dropped,
\* those of two other names have reached the consumer.
C23_Witness ==
    /\ Len(received) >= 2
    /\ Len(taken) >= Len(received) + 2
    /\ \E i \in 1..Len(taken) : taken[i].Name = WatchTmpDir
    /\ \E i \in 1..Len(taken) : taken[i].Name \in NewFiles /\ MatchesIgnorePattern(taken[i].Name)
    /\ Events = <<>>
    /\ pending = NoEvent

(***************************************************************************)
(* Claims about concurrent calls of Sort                                   *)
(***************************************************************************)

\* What an archive holds, whatever the numbers of its inodes: its
\* directories, the content at each path, and which paths are links of one
\* file.
Shape(f) ==
    [dirs |-> f.dirs,
     content |-> [p \in DOMAIN f.files |-> f.data[f.files[p]]],
     links |-> {LinksOf(f, p) : p \in DOMAIN f.files}]

\* Every worker has returned from Sort.
AllReturned ==
    /\ workers # <<>>
    /\ \A i \in DOMAIN workers :
          workers[i].err # NoError \/ workers[i].at = Len(workers[i].plan)

\* C24: when two calls of Sort on files of different YEAR/MONTH have both
\* returned, in whatever order their filesystem calls were made, both have
\* succeeded and the archive is what the same two calls leave when they are
\* made one after the other, in either order.
C24_InterleavingsAgree ==
    AllReturned =>
        /\ \A i \in DOMAIN workers : workers[i].err = NoError
        /\ Shape(fs) = Shape(Sequential(start, SourceOf(workers[1].src),
                                        SourceOf(workers[2].src)))
        /\ Shape(fs) = Shape(Sequential(start, SourceOf(workers[2].src),
                                        SourceOf(workers[1].src)))

\* Both workers have returned, their files come from the same source
\* directory (so they share all/ and the directory under origin/), and the
\* archive was fresh.
C24_Witness ==
    /\ AllReturned
    /\ workers[1].src = SrcYQ
    /\ workers[2].src = SrcYT
    /\ start = InitedArchive
    /\ Cardinality(DOMAIN fs.files) = 6

(***************************************************************************)
(* The task as a partition of the group                                    *)
(***************************************************************************)

\* How often path p occurs in sequence s.
Count(s, p) == Cardinality({i \in 1..Len(s) : s[i] = p})

\* The three parts of the task hold every path of the group, each path in
\* one part only and, in the lists, once.
PartitionsInput ==
    /\ {task.ToKeep} \union Range(task.ReCreateLinks) \union Range(task.DeleteFiles)
          = Range(input)
    /\ task.ToKeep \notin Range(task.ReCreateLinks)
    /\ task.ToKeep \notin Range(task.DeleteFiles)
    /\ Range(task.ReCreateLinks) \cap Range(task.DeleteFiles) = {}

\* C25: the task DeDuplicate returns without an error partitions the
\* group, for every group.
C25_ResultPartitionsInput ==
    (Returned /\ err = NoError) => PartitionsInput

\* The same for the groups in which no path occurs twice.
C25_PartitionsGroupsOfDistinctPaths ==
    (Returned /\ err = NoError /\ \A p \in Range(input) : Count(input, p) = 1)
        => PartitionsInput

(***************************************************************************)
(* The containment error                                                   *)
(***************************************************************************)

ContainmentError == err # NoError /\ Head(err) = "failed to find path in directory"

\* C27: DeDuplicate returns the containment error only when some path of
\* the group is not lexically within the archive root.
C27_ContainmentErrorOnlyOutside ==
    (Returned /\ ContainmentError) => ~Accepted

\* The same away from the names that begin with two dots: a group none of
\* whose paths begins, below the root, with ".." gets the containment error
\* only for a path outside the root.
C27_ContainmentErrorOnlyOutsideNoDots ==
    (/\ Returned
     /\ ContainmentError
     /\ \A p \in Range(input) : ~BeginsWithDots(p)) => ~Accepted

(***************************************************************************)
(* The kept files after DeduplicateAll                                     *)
(***************************************************************************)

\* DeduplicateAll returned nil on the real filesystem.
ReturnedNil == call.fn = "DeduplicateAll" /\ creator = "os" /\ call.err = NoError

\* The file each group keeps is in the archive.
KeptFilesExist ==
    \A i \in 1..Len(input) : DeDuplicated[input[i]].task.ToKeep \in DOMAIN fs.files

\* C28: after DeduplicateAll returned nil, the ToKeep file of every group
\* exists, for every list of groups.
C28_KeptFilesExist == ReturnedNil => KeptFilesExist

\* The same for lists of groups in which no path occurs twice.
C28_KeptFilesExistNoSharedPath == (ReturnedNil /\ NoSharedPath) => KeptFilesExist

(***************************************************************************)
(* file.go: ReadOnlyMemoryFile                                             *)
(***************************************************************************)

\* The longest file, the longest buffer p and the largest offset, to either
\* side, of a call.
MaxData == 2
MaxBuf == 2
MaxOffset == 3

\* The files ReadFile returns: data of every length, each byte its index.
MemoryFiles(max) ==
    {[data |-> [i \in 1..n |-> i], currentPosition |-> 0] : n \in 0..max}

Whences == {"SeekStart", "SeekCurrent", "SeekEnd", "other"}
EOF == <<"EOF">>

Min(a, b) == IF a < b THEN a ELSE b

\* m.readAt(p, offset) for a buffer of lenp bytes.  The slice expression
\* m.data[m.currentPosition+offset:] panics when its low bound is negative
\* or beyond len(m.data); copy takes as many bytes as fit.
readAt(m, lenp, offset) ==
    LET low == m.currentPosition + offset
        bytesCopied == Min(lenp, Len(m.data) - low)
    IN  IF low < 0 \/ low > Len(m.data)
        THEN [panic |-> TRUE, n |-> 0, p |-> <<>>, err |-> NoError]
        ELSE [panic |-> FALSE, n |-> bytesCopied,
              p |-> SubSeq(m.data, low + 1, low + bytesCopied),
              err |-> IF bytesCopied < lenp THEN EOF ELSE NoError]

\* m.Seek(offset, whence): the new position; the error is always nil.
SeekPosition(m, offset, whence) ==
    CASE whence = "SeekCurrent" -> m.currentPosition + offset
      [] whence = "SeekStart" -> offset
      [] whence = "SeekEnd" -> Len(m.data) + offset
      [] OTHER -> m.currentPosition

memOther ==
    <<duplicateFiles, input, task, err, fs, calls, firstPath, faults, creator, start,
      linkFailed, dryRun, watchVars, workers>>

InitMemoryFile ==
    /\ pc = "open"
    /\ memoryFile \in MemoryFiles(MaxData)
    /\ input = <<>>
    /\ duplicateFiles = <<>>
    /\ task = EmptyTask
    /\ err = NoError
    /\ fs = EmptyFS
    /\ call = NoCall
    /\ calls = 0
    /\ firstPath = <<>>
    /\ faults = 0
    /\ creator = "os"
    /\ start = fs
    /\ linkFailed = {}
    /\ dryRun = FALSE
    /\ WatchIdle
    /\ workers = <<>>

\* m.Seek(offset, whence)
Seek ==
    /\ pc = "open"
    /\ \E offset \in -MaxOffset..MaxOffset, whence \in Whences :
       \E pos \in {SeekPosition(memoryFile, offset, whence)} :
          /\ pos \in -(MaxData + MaxOffset)..(MaxData + MaxOffset)
          /\ memoryFile' = [memoryFile EXCEPT !.currentPosition = pos]
          /\ call' = [fn |-> "Seek", offset |-> offset, whence |-> whence,
                      ret |-> pos, err |-> NoError, at |-> memoryFile.currentPosition]
    /\ UNCHANGED <<pc, memOther>>

\* m.MustReset(): Seek(0, io.SeekStart), a panic if Seek returns an error.
MustReset ==
    /\ pc = "open"
    /\ memoryFile' = [memoryFile EXCEPT
                         !.currentPosition = SeekPosition(memoryFile, 0, "SeekStart")]
    /\ call' = [fn |-> "MustReset", err |-> NoError, at |-> memoryFile.currentPosition]
    /\ UNCHANGED <<pc, memOther>>

\* m.Read(p)
Read ==
    /\ pc = "open"
    /\ \E lenp \in 0..MaxBuf :
       \E r \in {readAt(memoryFile, lenp, 0)} :
          /\ pc' = IF r.panic THEN "panicked" ELSE "open"
          /\ memoryFile' = IF r.panic THEN memoryFile
                           ELSE [memoryFile EXCEPT !.currentPosition = @ + r.n]
          /\ call' = [fn |-> "Read", len |-> lenp, off |-> 0, n |-> r.n, p |-> r.p,
                      err |-> r.err, at |-> memoryFile.currentPosition]
    /\ UNCHANGED memOther

\* m.ReadAt(p, off)
ReadAt ==
    /\ pc = "open"
    /\ \E lenp \in 0..MaxBuf, off \in -MaxOffset..MaxOffset :
       \E r \in {readAt(memoryFile, lenp, off)} :
          /\ pc' = IF r.panic THEN "panicked" ELSE "open"
          /\ call' = [fn |-> "ReadAt", len |-> lenp, off |-> off, n |-> r.n, p |-> r.p,
                      err |-> r.err, at |-> memoryFile.currentPosition]
    /\ UNCHANGED <<memoryFile, memOther>>

NextMemoryFile == Seek \/ MustReset \/ Read \/ ReadAt

SpecMemoryFile == InitMemoryFile /\ [][NextMemoryFile]_vars

\* C30: no sequence of Seek, Read and ReadAt calls on a ReadOnlyMemoryFile
\* panics.
C30_NeverPanics == pc # "panicked"

\* Seek and MustReset never return an error and never panic.
C30_SeekNeverFails ==
    (call.fn \in {"Seek", "MustReset"}) => (call.err = NoError /\ pc = "open")

\* A read that starts within the data, its end included, returns the bytes
\* available there, and io.EOF exactly when they are fewer than len(p).
C30_ReadsWithinTheData ==
    (/\ call.fn \in {"Read", "ReadAt"}
     /\ call.at + call.off \in 0..Len(memoryFile.data))
        => /\ pc = "open"
           /\ call.n = Min(call.len, Len(memoryFile.data) - (call.at + call.off))
           /\ call.p = [i \in 1..call.n |-> memoryFile.data[call.at + call.off + i]]
           /\ (call.err = EOF) = (call.n < call.len)
           /\ call.err \in {EOF, NoError}

(***************************************************************************)
(* Sort on files of every capture year, and DeDuplicate on what it returns *)
(***************************************************************************)

\* The years and months of the times the extractor returns: the year of
\* time.Time{}, years of three, four and five digits.
CaptureYears == {1, 999, 1000, 2019, 9999, 10000}
CaptureMonths == {1, 12}

\* Media files with these capture times, in the source root and below it.
DatedSources ==
    {[name |-> n, media |-> TRUE, date |-> Date(y, m, 1, 0, 0, 0, 0), content |-> "jpgA"] :
        n \in {SrcXP, SrcR}, y \in CaptureYears, m \in CaptureMonths}

InitDated ==
    /\ pc = "ready"
    /\ input \in DatedSources
    /\ duplicateFiles = <<>>
    /\ task = EmptyTask
    /\ err = NoError
    /\ fs = InitedArchive
    /\ call = NoCall
    /\ calls = 0
    /\ firstPath = <<>>
    /\ faults = 0
    /\ creator = "os"
    /\ start = fs
    /\ linkFailed = {}
    /\ WatchIdle
    /\ OtherIdle
    /\ dryRun = FALSE

\* n, err := a.Sort(f)
SortDated ==
    /\ pc = "ready"
    /\ \E fault \in Faults(Sort(Algo, fs, input, "ok", NoFault).log) :
       \E r \in {Sort(Algo, fs, input, "ok", fault)} :
             /\ fs' = r.fs
             /\ err' = r.err
             /\ call' = [fn |-> "Sort", src |-> input.name, oracle |-> "ok", fault |-> fault,
                         ret |-> r.ret, err |-> r.err, log |-> r.log, pre |-> fs]
             /\ faults' = faults + (IF fault.at > 0 THEN 1 ELSE 0)
    /\ calls' = calls + 1
    /\ pc' = "Sort"
    /\ UNCHANGED <<input, duplicateFiles, task, firstPath, creator, start, linkFailed,
                   dryRun, watchVars, otherVars>>

\* task, err := DeDuplicate(archiveRoot, {the path Sort returned})
DeDuplicateSorted ==
    /\ pc = "Sort"
    /\ call.err = NoError
    /\ \E r \in {DeDuplicate(ArchiveRoot, <<call.ret>>)} :
           /\ task' = r.task
           /\ err' = r.err
    /\ duplicateFiles' = <<call.ret>>
    /\ pc' = "DeDuplicate"
    /\ UNCHANGED <<input, fs, call, calls, firstPath, faults, creator, start, linkFailed,
                   dryRun, watchVars, otherVars>>

NextDated == SortDated \/ DeDuplicateSorted

SpecDated == InitDated /\ [][NextDated]_vars

\* C26: the path a successful Sort returns is calendar-stored for
\* DeDuplicate, which keeps it, whatever the capture time.
C26_SortedIsCalendarStored ==
    (pc = "DeDuplicate")
        => /\ err = NoError
           /\ task.ToKeep = call.ret
           /\ isCalendarStoredFile(pathInArchive(ArchiveRoot, call.ret).rel)

\* The same for the capture times whose year has four digits.
C26_SortedIsCalendarStoredFourDigits ==
    (pc = "DeDuplicate" /\ input.date.year \in 1000..9999)
        => /\ err = NoError
           /\ task.ToKeep = call.ret
           /\ isCalendarStoredFile(pathInArchive(ArchiveRoot, call.ret).rel)

(***************************************************************************)
(* recursive_watcher.go: run when the context is cancelled                 *)
(***************************************************************************)

\* How many events the underlying watcher holds for run at a time.
MaxQueued == 1

\* The events of the underlying watcher: writes to a picture and to a
\* temporary file, which is ignored.
WriteEvents ==
    {[Op |-> "WRITE", Name |-> SrcXP], [Op |-> "WRITE", Name |-> WatchTmpDir]}

cancelOther ==
    <<duplicateFiles, input, task, fs, call, calls, firstPath, creator, start,
      linkFailed, dryRun, forwarded, owed, received, taken, otherVars>>

\* NewRecursiveWatcher(ctx, ignores, SourceDir): run is at its select, the
\* consumer reads Events and Errors.
InitCancel ==
    /\ pc = "select"
    /\ input = <<>>
    /\ duplicateFiles = <<>>
    /\ task = EmptyTask
    /\ err = NoError
    /\ fs = osMkdirAll(EmptyFS, SourceDir).fs
    /\ call = NoCall
    /\ calls = 0
    /\ firstPath = <<>>
    /\ faults = 0
    /\ creator = "os"
    /\ start = fs
    /\ linkFailed = {}
    /\ dryRun = FALSE
    /\ watcher = [dirs |-> {SourceDir}, queue |-> <<>>, errors |-> 0, closed |-> FALSE]
    /\ Events = <<>>
    /\ pending = NoEvent
    /\ forwarded = {}
    /\ owed = {}
    /\ received = <<>>
    /\ taken = <<>>
    /\ ctx = "live"
    /\ reading = TRUE
    /\ OtherIdle

\* Somebody writes to a file of the watched directory: the underlying
\* watcher, while it is open, has an event for run.
Write ==
    /\ ~watcher.closed
    /\ Len(watcher.queue) < MaxQueued
    /\ \E e \in WriteEvents : watcher' = [watcher EXCEPT !.queue = Append(@, e)]
    /\ UNCHANGED <<pc, ctx, reading, Events, pending, err, faults, cancelOther>>

\* The underlying watcher has an error for run.
WatcherError ==
    /\ ~watcher.closed
    /\ faults < MaxFaults
    /\ watcher.errors = 0
    /\ watcher' = [watcher EXCEPT !.errors = 1]
    /\ faults' = faults + 1
    /\ UNCHANGED <<pc, ctx, reading, Events, pending, err, cancelOther>>

\* The context is cancelled, or its deadline passes.
Cancel ==
    /\ ctx = "live"
    /\ ctx' = "cancelled"
    /\ UNCHANGED <<pc, reading, Events, pending, watcher, err, faults, cancelOther>>

\* The consumer reads an event from Events.
TakeEvent ==
    /\ reading
    /\ Events # <<>>
    /\ Events' = Tail(Events)
    /\ UNCHANGED <<pc, ctx, reading, pending, watcher, err, faults, cancelOther>>

\* The consumer reads Events and Errors no more.
StopReading ==
    /\ reading
    /\ reading' = FALSE
    /\ UNCHANGED <<pc, ctx, Events, pending, watcher, err, faults, cancelOther>>

\* case e := <-r.watcher.Events: an ignored event is dropped, another one
\* is processed and is then to be sent.
RunEvent ==
    /\ pc = "select"
    /\ watcher.queue # <<>>
    /\ \E e \in {Head(watcher.queue)} :
       \E w \in {[watcher EXCEPT !.queue = Tail(@)]} :
          IF isIgnored(ignores, e.Name)
          THEN /\ watcher' = w
               /\ UNCHANGED <<pc, pending>>
          ELSE /\ watcher' = processEvent(w, fs, e, TRUE)
               /\ pending' = e
               /\ pc' = "send"
    /\ UNCHANGED <<ctx, reading, Events, err, faults, cancelOther>>

\* r.Events <- e: blocks while the buffer is full.
RunSend ==
    /\ pc = "send"
    /\ Len(Events) < EventsCap
    /\ Events' = Append(Events, pending)
    /\ pending' = NoEvent
    /\ pc' = "select"
    /\ UNCHANGED <<ctx, reading, watcher, err, faults, cancelOther>>

\* case e := <-r.watcher.Errors
RunError ==
    /\ pc = "select"
    /\ watcher.errors > 0
    /\ watcher' = [watcher EXCEPT !.errors = 0]
    /\ pc' = "sendError"
    /\ UNCHANGED <<ctx, reading, Events, pending, err, faults, cancelOther>>

\* r.Errors <- e: the channel has no buffer, the send blocks until the
\* consumer reads it.
RunSendError ==
    /\ pc = "sendError"
    /\ reading
    /\ err' = <<"watcher error">>
    /\ pc' = "select"
    /\ UNCHANGED <<ctx, reading, Events, pending, watcher, faults, cancelOther>>

\* case <-ctx.Done(): err := r.watcher.Close(); an error is to be sent on
\* Errors, without one run returns.
RunDone ==
    /\ pc = "select"
    /\ ctx = "cancelled"
    /\ \E ok \in (IF faults < MaxFaults THEN BOOLEAN ELSE {TRUE}) :
          /\ pc' = IF ok THEN "returned" ELSE "sendCloseError"
          /\ faults' = faults + (IF ok THEN 0 ELSE 1)
    /\ watcher' = [watcher EXCEPT !.closed = TRUE]
    /\ UNCHANGED <<ctx, reading, Events, pending, err, cancelOther>>

\* r.Errors <- err, then return
RunSendCloseError ==
    /\ pc = "sendCloseError"
    /\ reading
    /\ err' = <<"close error">>
    /\ pc' = "returned"
    /\ UNCHANGED <<ctx, reading, Events, pending, watcher, faults, cancelOther>>

NextCancel ==
    \/ Write \/ WatcherError \/ Cancel \/ TakeEvent \/ StopReading
    \/ RunEvent \/ RunSend \/ RunError \/ RunSendError \/ RunDone \/ RunSendCloseError

SpecCancel == InitCancel /\ [][NextCancel]_vars

\* The goroutine run is scheduled, its select takes every ready case in the
\* end (the choice among ready cases is random), and the consumer, as long
\* as it reads, takes what is sent.
SpecCancelFair ==
    /\ SpecCancel
    /\ WF_vars(RunSend) /\ WF_vars(RunSendError) /\ WF_vars(RunSendCloseError)
    /\ SF_vars(RunDone) /\ SF_vars(RunEvent) /\ SF_vars(RunError)
    /\ WF_vars(TakeEvent)

RunEnded == pc = "returned" /\ watcher.closed

\* C29: once the context is cancelled, run closes the underlying watcher
\* and returns in the end, whatever the consumer does.
C29_CancelEndsRun == (ctx = "cancelled") ~> RunEnded

\* The same as long as the consumer goes on reading Events and Errors.
C29_CancelEndsRunWhileRead ==
    (ctx = "cancelled" /\ reading) ~> (RunEnded \/ ~reading)

\* run returns only after it has closed the underlying watcher, and only
\* when the context is cancelled.
C29_ReturnsOnlyClosed == (pc = "returned") => (watcher.closed /\ ctx = "cancelled")
====
